---- MODULE Spec2Model ----
(***************************************************************************)
(* sail-lsp: a language server that drives one interactive `sail -i`       *)
(* process.  The model covers the Session (src/repl.rs), the shared        *)
(* SailState (src/state.rs), the debounce thread and the notification      *)
(* dispatch of src/main.rs, the hover handler of src/handlers.rs and the   *)
(* text utilities of src/utils.rs.                                         *)
(***************************************************************************)
EXTENDS Integers, Sequences, FiniteSets, TLC

\* ------------------------------------------------------------------ bounds
NHover == 2       \* hover request workers alive at the same time
MaxSpawns == 2    \* processes the Session launches in one run
MaxLines == 1     \* lines a process prints for one command before the prompt
MaxLate == 1      \* calls that timed out and whose answer the process still owes
MaxQ == 1         \* notifications dispatched whose event is not yet received
MaxNotifs == 3    \* notifications the client sends in a document scenario
MaxPasses == 2    \* index passes in one run
MaxText == 2      \* characters in a document text or a line before an edit
Window == 2       \* ticks of the clock in one quiet window of 500 ms
MaxOut == 3       \* lines of output one publication parses

\* ------------------------------------------------------------- Option<T>
None == [some |-> FALSE, val |-> <<>>]
Some(x) == [some |-> TRUE, val |-> x]

\* --------------------------------------------------- HashMap<K, V> helpers
EmptyMap == <<>>
Put(m, k, v) == [x \in (DOMAIN m) \cup {k} |-> IF x = k THEN v ELSE m[x]]
Remove(m, k) == [x \in (DOMAIN m) \ {k} |-> m[x]]

\* ------------------------------------------------------------ src/utils.rs
\* A text is a sequence of characters; a character is named by a string.
\* "nl" is '\n'; "e2", "e3", "e4" stand for characters of 2, 3 and 4 UTF-8
\* bytes ("e4" is outside the BMP: two UTF-16 code units).
Utf8Len(c) == CASE c = "e2" -> 2 [] c = "e3" -> 3 [] c = "e4" -> 4 [] OTHER -> 1
Utf16Len(c) == IF c = "e4" THEN 2 ELSE 1

RECURSIVE ByteLen(_)
ByteLen(s) == IF s = <<>> THEN 0 ELSE Utf8Len(Head(s)) + ByteLen(Tail(s))

\* &s[b..] and &s[..b] for a byte offset b on a character boundary
RECURSIVE FromByte(_, _)
FromByte(s, b) ==
    IF b <= 0 \/ s = <<>> THEN s ELSE FromByte(Tail(s), b - Utf8Len(Head(s)))

RECURSIVE UpToByte(_, _)
UpToByte(s, b) ==
    IF b <= 0 \/ s = <<>> THEN <<>>
    ELSE <<Head(s)>> \o UpToByte(Tail(s), b - Utf8Len(Head(s)))

\* the loop of byte_to_utf16_offset: i is the byte index of the next char
RECURSIVE ByteToUtf16Loop(_, _, _, _)
ByteToUtf16Loop(rest, byte_offset, i, utf16_offset) ==
    IF rest = <<>> THEN utf16_offset
    ELSE IF i >= byte_offset THEN utf16_offset
    ELSE ByteToUtf16Loop(Tail(rest), byte_offset, i + Utf8Len(Head(rest)),
                         utf16_offset + Utf16Len(Head(rest)))

byte_to_utf16_offset(line, byte_offset) ==
    ByteToUtf16Loop(line, byte_offset, 0, 0)

\* the loop of utf16_offset_to_byte
RECURSIVE Utf16ToByteLoop(_, _, _, _)
Utf16ToByteLoop(rest, utf16_col, byte_idx, utf16_pos) ==
    IF rest = <<>> THEN byte_idx
    ELSE IF utf16_pos >= utf16_col THEN byte_idx
    ELSE Utf16ToByteLoop(Tail(rest), utf16_col, byte_idx + Utf8Len(Head(rest)),
                         utf16_pos + Utf16Len(Head(rest)))

\* a conversion that takes the column for a byte offset
utf16_offset_as_byte(line, utf16_col) ==
    IF utf16_col < ByteLen(line) THEN utf16_col ELSE ByteLen(line)

utf16_offset_to_byte(line, utf16_col) ==
    Utf16ToByteLoop(line, utf16_col, 0, 0)

\* line_rest[..line_rest.find('\n').unwrap_or(len)]
RECURSIVE UpToNewline(_)
UpToNewline(s) ==
    IF s = <<>> \/ Head(s) = "nl" THEN <<>>
    ELSE <<Head(s)>> \o UpToNewline(Tail(s))

\* the loop of position_to_byte_offset over content.char_indices()
RECURSIVE PositionLoop(_, _, _, _)
PositionLoop(rest, pos, i, current_line) ==
    IF rest = <<>> THEN i
    ELSE IF current_line = pos.line
         THEN i + utf16_offset_to_byte(UpToNewline(rest), pos.character)
    ELSE PositionLoop(Tail(rest), pos, i + Utf8Len(Head(rest)),
                      IF Head(rest) = "nl" THEN current_line + 1 ELSE current_line)

position_to_byte_offset(content, pos) == PositionLoop(content, pos, 0, 0)

\* an iteration that replaces whatever the two offsets are
ApplyChangeUnguarded(content, change) ==
    IF change.range.some
    THEN LET start == position_to_byte_offset(content, change.range.val.start)
             end == position_to_byte_offset(content, change.range.val.end)
         IN UpToByte(content, start) \o change.text \o FromByte(content, end)
    ELSE change.text

\* one iteration of apply_changes; a change is [range: Option<Range>, text]
ApplyChange(content, change) ==
    IF change.range.some
    THEN LET start == position_to_byte_offset(content, change.range.val.start)
             end == position_to_byte_offset(content, change.range.val.end)
         IN IF start <= end /\ end <= ByteLen(content)
            THEN UpToByte(content, start) \o change.text \o FromByte(content, end)
            ELSE content
    ELSE change.text

RECURSIVE apply_changes(_, _)
apply_changes(content, changes) ==
    IF changes = <<>> THEN content
    ELSE apply_changes(ApplyChange(content, Head(changes)), Tail(changes))

\* ------------------------------------------------------------ paths, URLs
\* A path is its sequence of components; an absolute path starts with "/".
IsAbsolute(p) == p # <<>> /\ p[1] = "/"
Parent(p) == IF p = <<>> \/ p = <<"/">> THEN None ELSE Some(SubSeq(p, 1, Len(p) - 1))
Join(dir, rel) == IF IsAbsolute(rel) THEN rel ELSE dir \o rel

\* Url::to_file_path and Url::from_file_path
ToFilePath(uri) == IF uri.scheme = "file" THEN Some(uri.path) ELSE None
FromFilePath(p) == IF IsAbsolute(p) THEN Some([scheme |-> "file", path |-> p]) ELSE None

DocA == [scheme |-> "file", path |-> <<"/", "proj", "a.sail">>]
DocU == [scheme |-> "untitled", path |-> <<"Untitled-1">>]

\* ---------------------------------------------------------------- threads
Coord == 0                    \* the debounce thread
Hovers == 1..NHover           \* hover request workers
Threads == {Coord} \cup Hovers

VARIABLES
    project_root,   \* SailState.project_root : Option<PathBuf>
    fs,             \* the marker files that exist on disk
    files,          \* SailState.files : HashMap<Url, String>
    workers,        \* notification workers spawned and not yet run, in arrival order
    expected,       \* history: the documents if notifications applied in arrival order
    diagQ,          \* the (Url, bool) channel diag_tx -> diag_rx
    pending,        \* pending_requests of the debounce thread
    batch,          \* requests: the batch drained by the last flush
    first_uri,      \* the representative, requests[0].0
    file_to_load,   \* the file handed to the last spawn
    published,      \* publishDiagnostics notifications sent in the current cycle
    trail,          \* history: the steps of the current cycle, in order
    sentG,          \* history: per document, was an event sent with force since the last flush
    burstG,         \* history: the same for the events of the current burst
    pc,             \* where each thread is
    lines,          \* the lines each thread's wait_for_prompt has collected
    holders,        \* the threads inside the SailState.repl mutex
    child,          \* SailRepl.child : 0 is None, else the process
    stdin,          \* SailRepl.stdin : 0 is None, else the process written to
    rx,             \* SailRepl.rx : 0 is None, else the process whose readers feed it
    procs,          \* each process the Session may launch: unborn, alive, dead
    chan,           \* the lines queued in the channel behind rx
    work,           \* commands (and the start-up) the process has not answered yet
    emitted,        \* lines the process printed for the command it is answering
    stop,           \* history: how the last send_command / spawn came back
    outPipe,        \* chunks the process wrote to stdout, not yet read by the reader
    errPipe,        \* lines the process wrote to stderr, not yet read by the reader
    oldPipe,        \* None where the old pipes are left out; else `unread`, what
                    \* earlier processes wrote and their readers have not yet
                    \* read, and `failed`, history: the sends of theirs that failed
    disk,           \* the source files on disk: path -> lines
    symbols,        \* SailState.symbols : HashMap<String, Vec<SymbolInfo>>
    project_files,  \* SailState.project_files : HashSet<PathBuf>
    ipc,            \* where the thread inside index_project is
    scan,           \* its locals `symbols` and `project_files`
    symbolsLock,    \* the RwLock around symbols: "free", "read" or "write"
    filesLock,      \* the RwLock around project_files
    readers,        \* the request handlers holding a read guard, by what they read
    passG,          \* history: the index pass each table comes from, the disk it saw,
                    \* and the file set the table had when the pass began
    probe,          \* a caller's arguments to an offset conversion: a line and an offset
    trip,           \* what the conversion and the conversion back returned
    parsedG,        \* history: the output the publication of the current cycle parsed
    clock,          \* None where time is left out; else `waited`, the ticks the
                    \* debounce thread has spent in its recv_timeout, and `quiet`,
                    \* history: the ticks since an event last entered the channel
    outStream,      \* the stdout pipe byte by byte: `wrote` (history) all the bytes
                    \* the process wrote, `unread` those the reader has yet to
                    \* read, `closed` once the process has closed its end
    framer,         \* the stdout reader thread: its `buf`, the chunks it has
                    \* `sent` on tx_out, and `done` once its loop has ended
    lockers,        \* the locking of each thread by itself: the lock operations
                    \* `prog` of the function it runs and `at`, the next of them
    owners          \* who holds an Arc<SailState>, and with it diag_tx: "main" is the
                    \* `state` of main_loop, "coord" the debounce thread's
                    \* state_for_diag; each worker holds one more while it runs

docVars == <<files, workers, expected, diagQ, sentG, burstG>>
cycleVars == <<pending, batch, first_uri, file_to_load, published, trail>>
threadVars == <<pc, lines, holders>>
replVars == <<child, stdin, rx, procs, chan, work, emitted, stop>>
frameVars == <<outStream, framer>>
envVars == <<project_root, fs, owners, frameVars, lockers>>
pipeVars == <<outPipe, errPipe, oldPipe>>
convVars == <<probe, trip>>
histVars == <<parsedG>>
indexVars == <<disk, symbols, project_files, ipc, scan, symbolsLock, filesLock, readers, passG>>
vars == <<clock, envVars, convVars, histVars, indexVars, pipeVars, docVars, cycleVars, threadVars, replVars>>

\* ------------------------------------------------------------ src/state.rs
\* the upward loop of find_sail_root
RECURSIVE UpwardSearch(_)
UpwardSearch(curr) ==
    LET parent == Parent(curr) IN
    IF ~parent.some THEN None
    ELSE IF (parent.val \o <<"ROOT">>) \in fs THEN Some(parent.val \o <<"ROOT">>)
    ELSE IF (parent.val \o <<".sail_project">>) \in fs
         THEN Some(parent.val \o <<".sail_project">>)
    ELSE UpwardSearch(parent.val)

find_sail_root(file_path) ==
    IF project_root.some /\ (project_root.val \o <<"ROOT">>) \in fs
    THEN Some(project_root.val \o <<"ROOT">>)
    ELSE IF project_root.some /\ (project_root.val \o <<".sail_project">>) \in fs
    THEN Some(project_root.val \o <<".sail_project">>)
    ELSE UpwardSearch(file_path)

\* ------------------------------------------- src/main.rs: notifications
\* an entry that keeps only the flag of the last event
MergeLast(m, uri, force) == Put(m, uri, force)

\* pending_requests.entry(uri).or_insert(false) |= force
MergeForce(m, uri, force) ==
    Put(m, uri, (IF uri \in DOMAIN m THEN m[uri] ELSE FALSE) \/ force)

\* the bool each notification handler sends with the document's Url
ForceOf(method) == method = "didOpen"

\* what a handler does to SailState.files
FilesAfter(fm, n) ==
    CASE n.method = "didOpen" -> Put(fm, n.uri, n.text)
      [] n.method = "didChange" ->
            IF n.uri \in DOMAIN fm
            THEN Put(fm, n.uri, apply_changes(fm[n.uri], n.changes))
            ELSE fm
      [] n.method = "didClose" -> Remove(fm, n.uri)
      [] OTHER -> fm

SendsEvent(n) == n.method \in {"didOpen", "didChange", "didSave"}

\* the clock when recv_timeout is called: the wait starts again
Unrestarted(c) == c
Restarted(c) == IF c.some THEN Some([c.val EXCEPT !.waited = 0]) ELSE c
\* the clock when an event enters the channel
Arrived(c) == IF c.some THEN Some([c.val EXCEPT !.quiet = 0]) ELSE c
\* the wait of recv_timeout has lasted the whole Duration::from_millis(500)
Elapsed(c) == c.some => c.val.waited >= Window

\* main_loop takes the next notification off the connection and spawns its worker
Dispatch(n, cap) ==
    /\ Len(workers) + Len(diagQ) < cap
    /\ workers' = Append(workers, n)
    /\ expected' = FilesAfter(expected, n)
    /\ UNCHANGED <<files, diagQ, sentG, burstG>>
    /\ UNCHANGED <<clock, envVars, convVars, histVars, indexVars, pipeVars, cycleVars, threadVars, replVars>>

WithoutIndex(s, i) == SubSeq(s, 1, i - 1) \o SubSeq(s, i + 1, Len(s))

\* the body of one notification worker: the files update, then diag_tx.send
WorkerRun(i) ==
    /\ i \in 1..Len(workers)
    /\ LET n == workers[i] IN
       /\ files' = FilesAfter(files, n)
       /\ workers' = WithoutIndex(workers, i)
       /\ IF SendsEvent(n)
          THEN /\ diagQ' = Append(diagQ, [uri |-> n.uri, force |-> ForceOf(n.method),
                                          method |-> n.method])
               /\ clock' = Arrived(clock)
               /\ sentG' = Put(sentG, n.uri,
                     ForceOf(n.method) \/ (n.uri \in DOMAIN sentG /\ sentG[n.uri]))
               /\ burstG' = Put(burstG, n.uri,
                     ForceOf(n.method) \/ (n.uri \in DOMAIN burstG /\ burstG[n.uri]))
          ELSE UNCHANGED <<diagQ, sentG, burstG, clock>>
    /\ UNCHANGED expected
    /\ UNCHANGED <<envVars, convVars, histVars, indexVars, pipeVars, cycleVars, threadVars, replVars>>

\* ------------------------------------------------------------- src/repl.rs
\* A line in the channel: kind "out" (a stdout chunk), "diag" (a tagged stderr
\* line with a location, for the file `path`), "cont" (any other tagged stderr
\* line) or "marker" (the chunk holding the prompt).  `stale` is history: the
\* call that asked for this line has already returned.
\* `mark` says where the text "Sail REPL>" stands in it: "none", "whole" (the
\* chunk is the prompt), "suffix" (unterminated output, then the prompt) or
\* "inside" (a full line that has the text in it).
\* A "diag" line also has `loc`, the four digit strings the location pattern
\* captures, and every tagged line has `text`, what follows the location (or
\* the tag).  A digit string is [fits, n]: whether it parses as a u32, and the
\* number if it does.
Digits(n) == [fits |-> TRUE, n |-> n]
TooLong == [fits |-> FALSE, n |-> 0]
Loc(l1, c1, l2, c2) == [l1 |-> l1, c1 |-> c1, l2 |-> l2, c2 |-> c2]
TextLine(kind, stale, path, mark, loc, text) ==
    [kind |-> kind, stale |-> stale, path |-> path, mark |-> mark,
     loc |-> loc, text |-> text]
MarkedLine(kind, stale, path, mark) ==
    TextLine(kind, stale, path, mark,
             Loc(Digits(1), Digits(0), Digits(1), Digits(0)), "msg")
Line(kind, stale, path) == MarkedLine(kind, stale, path, "none")
Marker(stale) == MarkedLine("marker", stale, <<>>, "whole")
\* the line as the process p wrote it (`proc` is history)
FromProc(l, p) == [f \in DOMAIN l \cup {"proc"} |-> IF f = "proc" THEN p ELSE l[f]]
Stale(s) == [i \in 1..Len(s) |-> [s[i] EXCEPT !.stale = TRUE]]

\* line.contains("Sail REPL>")
IsPrompt(line) == line.mark # "none"

\* SailRepl::is_alive
is_alive == child # 0 /\ procs[child] = "alive"

\* a lock that admits every caller
CanLockAlways(t) == TRUE

\* state.repl.lock(): a Mutex admits one thread
CanLock(t) == holders = {}

\* a pipe that takes every write, its process gone or not
WriteNeverFails == FALSE

\* the process behind `stdin` is gone: the pipe is closed and writeln! fails
WriteFails == stdin # 0 /\ procs[stdin] # "alive"

\* a send_command that overlooks the failed write and goes on to collect
WriteIgnored(t) ==
    /\ pc' = [pc EXCEPT ![t] = "wait"]
    /\ lines' = [lines EXCEPT ![t] = <<>>]
    /\ stop' = "none"
    /\ UNCHANGED <<chan, work>>

\* send_command when writeln! returns Err: return vec![] at once
WriteFailed(t) ==
    /\ pc' = [pc EXCEPT ![t] = "ret"]
    /\ lines' = [lines EXCEPT ![t] = <<>>]
    /\ stop' = "writefail"
    /\ UNCHANGED <<chan, work>>

\* send_command: write the command, then enter wait_for_prompt(5 s)
send_command(t, cmd) ==
    /\ IF WriteFails THEN WriteFailed(t)
       ELSE /\ work' = IF stdin # 0 THEN Append(work, [stale |-> FALSE])
                       ELSE work
            /\ lines' = [lines EXCEPT ![t] = <<>>]
            /\ IF rx = 0
               THEN pc' = [pc EXCEPT ![t] = "ret"] /\ stop' = "norx"
               ELSE pc' = [pc EXCEPT ![t] = "wait"] /\ stop' = "none"
            /\ UNCHANGED chan
    /\ UNCHANGED <<child, stdin, rx, procs, emitted>>

\* wait_for_prompt, Ok(line): the prompt ends the call, any other line is kept
RecvLine(t) ==
    /\ pc[t] = "wait"
    /\ chan # <<>>
    /\ IF IsPrompt(Head(chan))
       THEN /\ pc' = [pc EXCEPT ![t] = "ret"]
            /\ stop' = IF Head(chan).stale THEN "stalemarker"
                        ELSE IF Head(chan).mark = "whole" THEN "marker"
                        ELSE "textmarker"
            /\ chan' = Stale(Tail(chan))
            /\ work' = Stale(work)
            /\ UNCHANGED lines
       ELSE /\ lines' = [lines EXCEPT ![t] = Append(@, Head(chan))]
            /\ chan' = Tail(chan)
            /\ UNCHANGED <<pc, stop, work>>
    /\ UNCHANGED <<child, stdin, rx, procs, emitted, holders>>
    /\ UNCHANGED <<clock, envVars, convVars, histVars, indexVars, pipeVars, docVars, cycleVars>>

\* a wait_for_prompt whose loop has no time limit
TimeoutIgnored(t) == pc[t] = "wait" /\ UNCHANGED vars

\* wait_for_prompt, start.elapsed() >= timeout: the call returns what it has
Timeout(t) ==
    /\ pc[t] = "wait"
    /\ pc' = [pc EXCEPT ![t] = "ret"]
    /\ stop' = "timeout"
    /\ chan' = Stale(chan)
    /\ work' = Stale(work)
    /\ UNCHANGED <<child, stdin, rx, procs, emitted, holders, lines>>
    /\ UNCHANGED <<clock, envVars, convVars, histVars, indexVars, pipeVars, docVars, cycleVars>>

\* wait_for_prompt, Err(Disconnected): both readers ended and nothing is queued
Disconnected(t) ==
    /\ pc[t] = "wait"
    /\ chan = <<>>
    /\ procs[rx] # "alive"
    /\ outPipe = <<>> /\ errPipe = <<>>
    /\ pc' = [pc EXCEPT ![t] = "ret"]
    /\ stop' = "closed"
    /\ work' = Stale(work)
    /\ UNCHANGED <<child, stdin, rx, procs, emitted, holders, lines, chan>>
    /\ UNCHANGED <<clock, envVars, convVars, histVars, indexVars, pipeVars, docVars, cycleVars>>

\* a spawn that drops the old process without killing it
KeepOld(ps, c) == ps

\* spawn, self.child.take(): old.kill(), old.wait()
KillOld(ps, c) == [ps EXCEPT ![c] = "dead"]

\* spawn, up to the launch: the old process is taken out, killed and reaped
SpawnKill(t) ==
    /\ procs' = IF child # 0 THEN KillOld(procs, child) ELSE procs
    /\ child' = 0
    /\ pc' = [pc EXCEPT ![t] = "launch"]
    /\ UNCHANGED <<stdin, rx, chan, work, emitted, stop, lines>>

Unborn == {p \in 1..MaxSpawns : procs[p] = "unborn"}

\* spawn, Command::spawn() fails: Err before any field is assigned
SpawnFail(t) ==
    /\ pc[t] = "launch"
    /\ pc' = [pc EXCEPT ![t] = "ret"]
    /\ lines' = [lines EXCEPT ![t] = <<>>]
    /\ stop' = "spawnfail"
    /\ UNCHANGED <<child, stdin, rx, procs, chan, work, emitted, holders>>
    /\ UNCHANGED <<clock, envVars, convVars, histVars, indexVars, pipeVars, docVars, cycleVars>>

\* a spawn that goes on with the channel it has
SameChannel(c) == c
\* spawn, crossbeam_channel::unbounded() and self.rx = Some(rx): the Session
\* reads a channel that is new and empty; the old one is dropped with what
\* it held
NewChannel(c) == <<>>

\* spawn, the process starts: new pipes, new channel, readers, wait_for_prompt(30 s)
SpawnOk(t) ==
    /\ pc[t] = "launch"
    /\ Unborn # {}
    /\ LET p == CHOOSE q \in Unborn : \A r \in Unborn : q <= r IN
       /\ procs' = [procs EXCEPT ![p] = "alive"]
       /\ child' = p
       /\ stdin' = p
       /\ rx' = p
    /\ chan' = NewChannel(chan)
    /\ work' = <<[stale |-> FALSE]>>
    /\ emitted' = 0
    /\ lines' = [lines EXCEPT ![t] = <<>>]
    /\ pc' = [pc EXCEPT ![t] = "wait"]
    /\ stop' = "none"
    /\ UNCHANGED holders
    /\ outPipe' = <<>> /\ errPipe' = <<>>
    /\ oldPipe' = IF oldPipe.some
                  THEN Some([oldPipe.val EXCEPT !.unread = @ \o outPipe \o errPipe])
                  ELSE oldPipe
    /\ UNCHANGED <<clock, envVars, convVars, histVars, indexVars, docVars, cycleVars>>

\* ------------------------------------------------------ the sail process
\* It answers the oldest unanswered command: some lines, then the prompt.
\* The channel holds one full answer.
MaxChan == MaxLines + 1

ProcEmitLine(kinds, paths) ==
    /\ rx # 0 /\ procs[rx] = "alive"
    /\ work # <<>>
    /\ Len(chan) < MaxChan
    /\ emitted < MaxLines
    /\ \E k \in kinds, p \in paths :
          chan' = Append(chan, FromProc(Line(k, Head(work).stale,
                                             IF k = "diag" THEN p ELSE <<>>), rx))
    /\ emitted' = emitted + 1
    /\ UNCHANGED <<child, stdin, rx, procs, work, stop>>
    /\ UNCHANGED <<clock, envVars, convVars, histVars, indexVars, pipeVars, docVars, cycleVars, threadVars>>

ProcEmitPrompt ==
    /\ rx # 0 /\ procs[rx] = "alive"
    /\ work # <<>>
    /\ Len(chan) < MaxChan
    /\ chan' = Append(chan, FromProc(Marker(Head(work).stale), rx))
    /\ work' = Tail(work)
    /\ emitted' = 0
    /\ UNCHANGED <<child, stdin, rx, procs, stop>>
    /\ UNCHANGED <<clock, envVars, convVars, histVars, indexVars, pipeVars, docVars, cycleVars, threadVars>>

\* The same process seen through its two pipes.  It writes one stderr line for
\* the command it is answering ...
PipesHaveRoom == Len(outPipe) + Len(errPipe) + Len(chan) < MaxChan

ProcWriteErr(marks) ==
    /\ rx # 0 /\ procs[rx] = "alive"
    /\ work # <<>>
    /\ emitted < MaxLines
    /\ PipesHaveRoom
    /\ \E m \in marks :
          errPipe' = Append(errPipe, FromProc(MarkedLine("cont", Head(work).stale, <<>>, m), rx))
    /\ emitted' = emitted + 1
    /\ UNCHANGED <<outPipe, oldPipe, child, stdin, rx, procs, chan, work, stop>>
    /\ UNCHANGED <<clock, envVars, convVars, histVars, indexVars, docVars, cycleVars, threadVars>>

\* ... or one stdout line ...
ProcWriteOut(marks) ==
    /\ rx # 0 /\ procs[rx] = "alive"
    /\ work # <<>>
    /\ emitted < MaxLines
    /\ PipesHaveRoom
    /\ \E m \in marks :
          outPipe' = Append(outPipe, FromProc(MarkedLine("out", Head(work).stale, <<>>, m), rx))
    /\ emitted' = emitted + 1
    /\ UNCHANGED <<errPipe, oldPipe, child, stdin, rx, procs, chan, work, stop>>
    /\ UNCHANGED <<clock, envVars, convVars, histVars, indexVars, docVars, cycleVars, threadVars>>

\* ... and ends the answer with the prompt on stdout, alone ("whole") or
\* after output that has no newline ("suffix")
ProcWritePrompt(marks) ==
    /\ rx # 0 /\ procs[rx] = "alive"
    /\ work # <<>>
    /\ PipesHaveRoom
    /\ \E m \in marks :
          outPipe' = Append(outPipe,
              FromProc(MarkedLine(IF m = "whole" THEN "marker" ELSE "out",
                                  Head(work).stale, <<>>, m), rx))
    /\ work' = Tail(work)
    /\ emitted' = 0
    /\ UNCHANGED <<errPipe, oldPipe, child, stdin, rx, procs, chan, stop>>
    /\ UNCHANGED <<clock, envVars, convVars, histVars, indexVars, docVars, cycleVars, threadVars>>

\* the stdout reader thread: a chunk ends at '\n' or at "Sail REPL> "
StdoutReader ==
    /\ outPipe # <<>>
    /\ chan' = Append(chan, Head(outPipe))
    /\ outPipe' = Tail(outPipe)
    /\ UNCHANGED <<errPipe, oldPipe, child, stdin, rx, procs, work, emitted, stop>>
    /\ UNCHANGED <<clock, envVars, convVars, histVars, indexVars, docVars, cycleVars, threadVars>>

\* the stderr reader thread: each line is sent with the tag "STDERR:"
StderrReader ==
    /\ errPipe # <<>>
    /\ chan' = Append(chan, Head(errPipe))
    /\ errPipe' = Tail(errPipe)
    /\ UNCHANGED <<outPipe, oldPipe, child, stdin, rx, procs, work, emitted, stop>>
    /\ UNCHANGED <<clock, envVars, convVars, histVars, indexVars, docVars, cycleVars, threadVars>>

\* a reader thread of an earlier process reads on from its pipe; its send
\* fails, the receiver of its channel being dropped, and is ignored
OldReader ==
    /\ oldPipe.some /\ oldPipe.val.unread # <<>>
    /\ oldPipe' = Some([unread |-> Tail(oldPipe.val.unread),
                        failed |-> oldPipe.val.failed + 1])
    /\ UNCHANGED <<outPipe, errPipe, child, stdin, rx, procs, chan, work, emitted, stop>>
    /\ UNCHANGED <<clock, envVars, convVars, histVars, indexVars, docVars, cycleVars, threadVars>>

\* the process exits by itself (a crash, :quit, a fatal error)
ProcExit ==
    /\ \E p \in 1..MaxSpawns :
          /\ procs[p] = "alive"
          /\ procs' = [procs EXCEPT ![p] = "dead"]
    /\ UNCHANGED <<child, stdin, rx, chan, work, emitted, stop>>
    /\ UNCHANGED <<clock, envVars, convVars, histVars, indexVars, pipeVars, docVars, cycleVars, threadVars>>

\* ------------------------------------ src/state.rs: the Symbol Indexer
\* A source line is its sequence of words.  get_ident_patterns: each pattern
\* is anchored at the start of the line, wants one of its keywords, for the
\* third pattern the word "clause", and captures the identifier that follows.
Patterns ==
    << [kws |-> {"val", "function", "overload", "outcome"}, clause |-> FALSE, kind |-> "FUNCTION"],
       [kws |-> {"type", "union", "struct", "enum", "mapping"}, clause |-> FALSE, kind |-> "CLASS"],
       [kws |-> {"union", "function", "mapping", "enum"}, clause |-> TRUE, kind |-> "METHOD"],
       [kws |-> {"let"}, clause |-> FALSE, kind |-> "VARIABLE"],
       [kws |-> {"register"}, clause |-> FALSE, kind |-> "FIELD"] >>

\* re.captures_iter(line), caps.get(1)
Capture(pat, line) ==
    IF Len(line) >= 2 /\ line[1] \in pat.kws
    THEN IF ~pat.clause THEN Some(line[2])
         ELSE IF Len(line) >= 3 /\ line[2] = "clause" THEN Some(line[3])
         ELSE None
    ELSE None

\* symbols.insert(sym, vec![info]): the entry is replaced
PushSymbolReplacing(syms, sym, info) == Put(syms, sym, <<info>>)

\* symbols.entry(sym).or_default().push(info)
PushSymbol(syms, sym, info) ==
    Put(syms, sym, (IF sym \in DOMAIN syms THEN syms[sym] ELSE <<>>) \o <<info>>)

\* for (re, kind) in patterns
RECURSIVE ScanPatterns(_, _, _, _, _)
ScanPatterns(syms, path, i, line, k) ==
    IF k > Len(Patterns) THEN syms
    ELSE LET caps == Capture(Patterns[k], line)
             uri == FromFilePath(path)
         IN ScanPatterns(
                IF caps.some /\ uri.some
                THEN PushSymbol(syms, caps.val,
                         [uri |-> uri.val, line |-> i, kind |-> Patterns[k].kind])
                ELSE syms,
                path, i, line, k + 1)

\* for (i, line) in content.lines().enumerate()
RECURSIVE ScanLines(_, _, _, _)
ScanLines(syms, path, content, i) ==
    IF i >= Len(content) THEN syms
    ELSE ScanLines(ScanPatterns(syms, path, i, content[i + 1], 1), path, content, i + 1)

SrcA == <<"/", "proj", "a.sail">>
SrcB == <<"/", "proj", "sub", "b.sail">>
SrcC == <<"/", "other", "c.sail">>
Notes == <<"/", "proj", "notes.txt">>

IsUnder(root, p) == Len(p) > Len(root) /\ SubSeq(p, 1, Len(root)) = root
HasSailExt(p) == p[Len(p)] \in {"a.sail", "b.sail", "c.sail"}

\* glob("{root}/**/*.sail") on disk d, in the order glob yields the paths
Glob(root, d) ==
    SelectSeq(<<SrcC, SrcA, Notes, SrcB>>,
              LAMBDA p : p \in DOMAIN d /\ IsUnder(root, p) /\ HasSailExt(p))

\* for entry in entries.flatten()
RECURSIVE ScanEntries(_, _, _)
ScanEntries(st, entries, d) ==
    IF entries = <<>> THEN st
    ELSE LET entry == Head(entries) IN
         ScanEntries([symbols |-> ScanLines(st.symbols, entry, d[entry], 0),
                      project_files |-> st.project_files \cup {entry}],
                     Tail(entries), d)

\* index_project, lines 70-102: the scan into the two locals
IndexScan ==
    /\ ipc = "idle"
    /\ project_root.some
    /\ passG.n < MaxPasses
    /\ scan' = ScanEntries([symbols |-> EmptyMap, project_files |-> {}],
                           Glob(project_root.val, disk), disk)
    /\ ipc' = "scanned"
    /\ passG' = [passG EXCEPT !.n = @ + 1, !.disk = disk, !.had = project_files]
    /\ UNCHANGED <<disk, symbols, project_files, symbolsLock, filesLock, readers>>
    /\ UNCHANGED <<clock, envVars, convVars, histVars, pipeVars, docVars, cycleVars, threadVars, replVars>>

\* a swap that lets go of the symbols lock right after the assignment
IndexSwapSymbolsUnlocked ==
    /\ ipc = "scanned"
    /\ symbolsLock = "free" /\ "symbols" \notin readers
    /\ symbols' = scan.symbols
    /\ ipc' = "symbols_written"
    /\ passG' = [passG EXCEPT !.symbols = passG.n]
    /\ UNCHANGED <<disk, project_files, scan, symbolsLock, filesLock, readers>>
    /\ UNCHANGED <<clock, envVars, convVars, histVars, pipeVars, docVars, cycleVars, threadVars, replVars>>

\* let mut guard = self.symbols.write().unwrap(); *guard = symbols;
IndexSwapSymbols ==
    /\ ipc = "scanned"
    /\ symbolsLock = "free" /\ "symbols" \notin readers
    /\ symbolsLock' = "write"
    /\ symbols' = scan.symbols
    /\ ipc' = "symbols_written"
    /\ passG' = [passG EXCEPT !.symbols = passG.n]
    /\ UNCHANGED <<disk, project_files, scan, filesLock, readers>>
    /\ UNCHANGED <<clock, envVars, convVars, histVars, pipeVars, docVars, cycleVars, threadVars, replVars>>

\* let mut files_guard = self.project_files.write().unwrap(); *files_guard = ..
IndexSwapFiles ==
    /\ ipc = "symbols_written"
    /\ filesLock = "free" /\ "project_files" \notin readers
    /\ filesLock' = "write"
    /\ project_files' = scan.project_files
    /\ ipc' = "files_written"
    /\ passG' = [passG EXCEPT !.project_files = passG.n]
    /\ UNCHANGED <<disk, symbols, scan, symbolsLock, readers>>
    /\ UNCHANGED <<clock, envVars, convVars, histVars, pipeVars, docVars, cycleVars, threadVars, replVars>>

\* the end of the block: both guards drop
IndexReturn ==
    /\ ipc = "files_written"
    /\ symbolsLock' = "free" /\ filesLock' = "free"
    /\ ipc' = "idle"
    /\ UNCHANGED <<disk, symbols, project_files, scan, readers, passG>>
    /\ UNCHANGED <<clock, envVars, convVars, histVars, pipeVars, docVars, cycleVars, threadVars, replVars>>

LockOf(x) == IF x = "symbols" THEN symbolsLock ELSE filesLock

\* a request handler takes state.symbols.read() or state.project_files.read()
ReaderAcquire(x) ==
    /\ x \notin readers
    /\ LockOf(x) # "write"
    /\ readers' = readers \cup {x}
    /\ UNCHANGED <<disk, symbols, project_files, ipc, scan, symbolsLock, filesLock, passG>>
    /\ UNCHANGED <<clock, envVars, convVars, histVars, pipeVars, docVars, cycleVars, threadVars, replVars>>

\* the handler is done and its guard drops
ReaderRelease(x) ==
    /\ x \in readers
    /\ readers' = readers \ {x}
    /\ UNCHANGED <<disk, symbols, project_files, ipc, scan, symbolsLock, filesLock, passG>>
    /\ UNCHANGED <<clock, envVars, convVars, histVars, pipeVars, docVars, cycleVars, threadVars, replVars>>

\* the user's editor or tools write and delete source files
FsWrite(p, content) ==
    /\ disk' = Put(disk, p, content)
    /\ disk' # disk
    /\ UNCHANGED <<symbols, project_files, ipc, scan, symbolsLock, filesLock, readers, passG>>
    /\ UNCHANGED <<clock, envVars, convVars, histVars, pipeVars, docVars, cycleVars, threadVars, replVars>>

FsDelete(p) ==
    /\ p \in DOMAIN disk
    /\ disk' = Remove(disk, p)
    /\ UNCHANGED <<symbols, project_files, ipc, scan, symbolsLock, filesLock, readers, passG>>
    /\ UNCHANGED <<clock, envVars, convVars, histVars, pipeVars, docVars, cycleVars, threadVars, replVars>>

\* ------------------------------------------- src/handlers.rs: handle_hover
\* get_word_at finds a word only where the text has an identifier character
HasWord(content) == \E i \in 1..Len(content) : content[i] \notin {"nl", "sp"}

\* files.read().get(uri)?, get_word_at(..)?: the request goes on to the Session
HoverStart(h) ==
    /\ pc[h] = "idle"
    /\ \E uri \in DOMAIN files : HasWord(files[uri])
    /\ pc' = [pc EXCEPT ![h] = "lock"]
    /\ UNCHANGED <<lines, holders>>
    /\ UNCHANGED <<clock, envVars, convVars, histVars, indexVars, pipeVars, docVars, cycleVars, replVars>>

\* let mut repl = state.repl.lock().unwrap(); repl.send_command(":t word")
HoverLock(h) ==
    /\ pc[h] = "lock"
    /\ CanLock(h)
    /\ holders' = holders \cup {h}
    /\ send_command(h, ":t")
    /\ UNCHANGED <<clock, envVars, convVars, histVars, indexVars, pipeVars, docVars, cycleVars>>

\* the guard drops at the end of the block; the response is built and sent
HoverRespond(h) ==
    /\ pc[h] = "ret"
    /\ holders' = holders \ {h}
    /\ pc' = [pc EXCEPT ![h] = "idle"]
    /\ lines' = [lines EXCEPT ![h] = <<>>]
    /\ stop' = "none"
    /\ UNCHANGED <<child, stdin, rx, procs, chan, work, emitted>>
    /\ UNCHANGED <<clock, envVars, convVars, histVars, indexVars, pipeVars, docVars, cycleVars>>

\* ------------------------------------------ src/main.rs: the debounce thread
AnyForce(requests) == \E u \in DOMAIN requests : requests[u]

\* diag_rx.recv_timeout(..): a queued event first; Disconnected once the
\* channel is empty and diag_tx has been dropped with the last Arc<SailState>
recv_timeout ==
    IF diagQ # <<>> THEN "Ok"
    ELSE IF owners = {} /\ workers = <<>> THEN "Disconnected"
    ELSE "Timeout"

\* diag_rx.recv_timeout, Ok((uri, force))
DRecv ==
    /\ pc[Coord] = "recv"
    /\ diagQ # <<>>
    /\ pending' = MergeForce(pending, Head(diagQ).uri, Head(diagQ).force)
    /\ diagQ' = Tail(diagQ)
    /\ clock' = Restarted(clock)
    /\ UNCHANGED <<batch, first_uri, file_to_load, published, trail>>
    /\ UNCHANGED <<files, workers, expected, sentG, burstG>>
    /\ UNCHANGED <<envVars, convVars, histVars, indexVars, pipeVars, threadVars, replVars>>

\* an iteration that hands out the entries and leaves them in the map
DrainKeeping(m) == [requests |-> m, rest |-> m]

\* pending_requests.drain().collect(): the entries go to `requests` and the
\* map is left empty
Drain(m) == [requests |-> m, rest |-> EmptyMap]

\* diag_rx.recv_timeout, Err(Timeout): with nothing pending the loop goes round
\* unchanged; with requests pending it drains them, and goes on to the Session
\* only if the first Url drained is a file path
DFlush ==
    /\ pc[Coord] = "recv"
    /\ recv_timeout = "Timeout"
    /\ Elapsed(clock)
    /\ pending # EmptyMap
    /\ batch' = Drain(pending).requests
    /\ pending' = Drain(pending).rest
    /\ \E f \in DOMAIN pending :
          /\ first_uri' = f
          /\ pc' = [pc EXCEPT ![Coord] = IF ToFilePath(f).some THEN "lock" ELSE "done"]
    /\ sentG' = EmptyMap
    /\ burstG' = EmptyMap
    /\ UNCHANGED <<file_to_load, published, trail, lines, holders>>
    /\ UNCHANGED <<files, workers, expected, diagQ>>
    /\ UNCHANGED <<clock, envVars, convVars, histVars, indexVars, pipeVars, replVars>>

\* diag_rx.recv_timeout, Err(_) => break: the loop and the thread end, and the
\* closure's state_for_diag is dropped
DBreak ==
    /\ pc[Coord] = "recv"
    /\ recv_timeout = "Disconnected"
    /\ pc' = [pc EXCEPT ![Coord] = "ended"]
    /\ owners' = owners \ {"coord"}
    /\ UNCHANGED <<clock, frameVars, lockers, project_root, fs, lines, holders>>
    /\ UNCHANGED <<convVars, histVars, indexVars, pipeVars, docVars, cycleVars, replVars>>

\* one turn of `match diag_rx.recv_timeout(..)`
DMatch ==
    CASE recv_timeout = "Ok" -> DRecv
      [] recv_timeout = "Timeout" -> DFlush
      [] recv_timeout = "Disconnected" -> DBreak

\* diag_rx.recv_timeout, Err(Timeout) with nothing pending: the loop goes
\* round and waits again
DIdle ==
    /\ pc[Coord] = "recv"
    /\ recv_timeout = "Timeout"
    /\ clock.some /\ Elapsed(clock)
    /\ pending = EmptyMap
    /\ clock' = Restarted(clock)
    /\ UNCHANGED <<envVars, convVars, histVars, indexVars, pipeVars, docVars, cycleVars, threadVars, replVars>>

\* One tick of time.  recv_timeout returns at once when an event is queued
\* and at the latest when the window has elapsed, so no tick goes by in
\* those states; `quiet` is counted up to Window.
Tick ==
    /\ clock.some
    /\ pc[Coord] = "recv" => (diagQ = <<>> /\ clock.val.waited < Window)
    /\ clock' = Some([waited |-> IF pc[Coord] = "recv" THEN clock.val.waited + 1
                                 ELSE clock.val.waited,
                      quiet |-> IF clock.val.quiet < Window THEN clock.val.quiet + 1
                                ELSE clock.val.quiet])
    /\ UNCHANGED <<envVars, convVars, histVars, indexVars, pipeVars, docVars, cycleVars, threadVars, replVars>>

\* main_loop returns (a shutdown request, or the client closed the
\* connection) and its `state` is dropped
MainLoopEnd ==
    /\ "main" \in owners
    /\ owners' = owners \ {"main"}
    /\ UNCHANGED <<clock, frameVars, lockers, project_root, fs>>
    /\ UNCHANGED <<convVars, histVars, indexVars, pipeVars, docVars, cycleVars, threadVars, replVars>>

\* a quiet window goes by while the debounce thread is inside a cycle
QuietWhileBusy ==
    /\ pc[Coord] # "recv"
    /\ burstG # EmptyMap
    /\ burstG' = EmptyMap
    /\ UNCHANGED <<files, workers, expected, diagQ, sentG>>
    /\ UNCHANGED <<clock, envVars, convVars, histVars, indexVars, pipeVars, cycleVars, threadVars, replVars>>

\* if !any_force && repl.is_alive() { send_command(":reload") } else { spawn(..) }
UseReload(any_force, alive) == ~any_force /\ alive

\* find_sail_root(&path).unwrap_or(path)
FileToLoad(path) ==
    LET root == find_sail_root(path) IN IF root.some THEN root.val ELSE path

\* state.repl.lock(), then the test `!any_force && repl.is_alive()`; the spawn
\* arm goes straight into spawn
DLock ==
    /\ pc[Coord] = "lock"
    /\ CanLock(Coord)
    /\ holders' = holders \cup {Coord}
    /\ IF UseReload(AnyForce(batch), is_alive)
       THEN /\ pc' = [pc EXCEPT ![Coord] = "send"]
            /\ trail' = trail \o <<"lock", "reload">>
            /\ UNCHANGED <<file_to_load, lines, replVars>>
       ELSE /\ SpawnKill(Coord)
            /\ trail' = trail \o <<"lock", "spawn">>
            /\ file_to_load' = FileToLoad(ToFilePath(first_uri).val)
    /\ UNCHANGED <<pending, batch, first_uri, published>>
    /\ UNCHANGED <<clock, envVars, convVars, histVars, indexVars, pipeVars, docVars>>

\* repl.send_command(":reload")
DReload ==
    /\ pc[Coord] = "send"
    /\ send_command(Coord, ":reload")
    /\ UNCHANGED holders
    /\ UNCHANGED <<clock, envVars, convVars, histVars, indexVars, pipeVars, docVars, cycleVars>>

\* the end of the `output` block: the guard drops
DUnlock ==
    /\ pc[Coord] = "ret"
    /\ holders' = holders \ {Coord}
    /\ pc' = [pc EXCEPT ![Coord] = "index"]
    /\ trail' = Append(trail, "unlock")
    /\ stop' = "none"
    /\ UNCHANGED <<child, stdin, rx, procs, chan, work, emitted>>
    /\ UNCHANGED <<pending, batch, first_uri, file_to_load, published, lines>>
    /\ UNCHANGED <<clock, envVars, convVars, histVars, indexVars, pipeVars, docVars>>

\* state_for_diag.index_project()
DIndex ==
    /\ pc[Coord] = "index"
    /\ pc' = [pc EXCEPT ![Coord] = "publish"]
    /\ trail' = Append(trail, "index")
    /\ UNCHANGED <<pending, batch, first_uri, file_to_load, published, lines, holders>>
    /\ UNCHANGED <<clock, envVars, convVars, histVars, indexVars, pipeVars, docVars, replVars>>

\* file_diagnostics.entry(u).or_default().push(d)
PushDiag(fd, u, d) == Put(fd, u, (IF u \in DOMAIN fd THEN fd[u] ELSE <<>>) \o <<d>>)

\* the path a location line names, made absolute
AbsolutePath(uri, path) ==
    IF IsAbsolute(path) THEN path
    ELSE LET base == IF project_root.some THEN project_root.val
                     ELSE LET own == ToFilePath(uri) IN
                          LET par == Parent(IF own.some THEN own.val ELSE <<>>) IN
                          IF par.some THEN par.val ELSE <<>>
         IN Join(base, path)

\* caps.get(2).and_then(parse::<u32>).unwrap_or(1), as it is
LineKept(d) == IF d.fits THEN d.n ELSE 1
\* caps.get(2).and_then(parse::<u32>).unwrap_or(1).saturating_sub(1)
LineOf(d) ==
    LET n == IF d.fits THEN d.n ELSE 1 IN IF n = 0 THEN 0 ELSE n - 1
\* caps.get(3).and_then(parse::<u32>).unwrap_or(0)
ColOf(d) == IF d.fits THEN d.n ELSE 0

\* the Diagnostic a location line opens; the message is kept in its parts,
\* which the code joins with '\n'
NewDiagnostic(line) ==
    [range |-> [start |-> [line |-> LineOf(line.loc.l1), character |-> ColOf(line.loc.c1)],
                end |-> [line |-> LineOf(line.loc.l2), character |-> ColOf(line.loc.c2)]],
     message |-> <<line.text>>]

\* a location line whose path is no document location, with the earlier
\* diagnostic left open
NoTargetKeepsCurrent(st, fd1) == st
\* a location line whose path is no document location: current_diag was
\* taken and pushed, and stays None
NoTarget(st, fd1) == [st EXCEPT !.fd = fd1, !.cur = None]

\* the loop of publish_diagnostics_batch over `output`:
\* st = [fd: file_diagnostics, cur: current_diag, rep: uris_to_report]
RECURSIVE ParseOutput(_, _, _)
ParseOutput(output, uri, st) ==
    IF output = <<>>
    THEN [st EXCEPT !.fd = IF st.cur.some
                           THEN PushDiag(st.fd, st.cur.val.uri, st.cur.val.diag)
                           ELSE st.fd]
    ELSE LET line == Head(output) IN
         IF line.kind = "diag"
         THEN LET fd1 == IF st.cur.some
                         THEN PushDiag(st.fd, st.cur.val.uri, st.cur.val.diag)
                         ELSE st.fd
                  target == FromFilePath(AbsolutePath(uri, line.path))
              IN IF target.some
                 THEN ParseOutput(Tail(output), uri,
                        [fd |-> fd1,
                         cur |-> Some([uri |-> target.val, diag |-> NewDiagnostic(line)]),
                         rep |-> st.rep \cup {target.val}])
                 ELSE ParseOutput(Tail(output), uri, NoTarget(st, fd1))
         ELSE IF line.kind = "cont" /\ st.cur.some
         THEN ParseOutput(Tail(output), uri,
                [st EXCEPT !.cur = Some([uri |-> st.cur.val.uri,
                     diag |-> [st.cur.val.diag EXCEPT
                                  !.message = Append(@, line.text)]])])
         ELSE ParseOutput(Tail(output), uri, st)

\* publish_diagnostics_batch: one notification for each Url of uris_to_report
publish_diagnostics_batch(uri, output, uris_to_report) ==
    LET st == ParseOutput(output, uri, [fd |-> EmptyMap, cur |-> None, rep |-> uris_to_report])
    IN [u \in st.rep |-> IF u \in DOMAIN st.fd THEN st.fd[u] ELSE <<>>]

DPublish ==
    /\ pc[Coord] = "publish"
    /\ published' = publish_diagnostics_batch(first_uri, lines[Coord], DOMAIN batch)
    /\ lines' = [lines EXCEPT ![Coord] = <<>>]
    /\ pc' = [pc EXCEPT ![Coord] = "done"]
    /\ trail' = Append(trail, "publish")
    /\ parsedG' = lines[Coord]
    /\ UNCHANGED <<pending, batch, first_uri, file_to_load, holders>>
    /\ UNCHANGED <<clock, envVars, convVars, indexVars, pipeVars, docVars, replVars>>

\* the Timeout arm is over: its locals are dropped and the loop goes round
DLoop ==
    /\ pc[Coord] = "done"
    /\ pc' = [pc EXCEPT ![Coord] = "recv"]
    /\ batch' = EmptyMap
    /\ published' = EmptyMap
    /\ trail' = <<>>
    /\ first_uri' = DocA
    /\ file_to_load' = <<>>
    /\ parsedG' = <<>>
    /\ clock' = Restarted(clock)
    /\ UNCHANGED <<pending, lines, holders>>
    /\ UNCHANGED <<envVars, convVars, indexVars, pipeVars, docVars, replVars>>

\* ---------------------------------------------------------- specifications
FullText(t) == [range |-> None, text |-> t]
Open(u, t) == [method |-> "didOpen", uri |-> u, text |-> t, changes |-> <<>>]
Change(u, cs) == [method |-> "didChange", uri |-> u, text |-> <<>>, changes |-> cs]
Save(u) == [method |-> "didSave", uri |-> u, text |-> <<>>, changes |-> <<>>]
Close(u) == [method |-> "didClose", uri |-> u, text |-> <<>>, changes |-> <<>>]

MaxHandlers == 2  \* request handlers running at once
CoordT == <<"coord", 0>>
WorkerT == <<"worker", 0>>
HandlerTs == {<<"handler", h>> : h \in 1..MaxHandlers}
LockThreads == {CoordT, WorkerT} \cup HandlerTs
NoLockers == [t \in LockThreads |-> [prog |-> <<>>, at |-> 1]]
NoStream == [wrote |-> <<>>, unread |-> <<>>, closed |-> FALSE]
NoFramer == [buf |-> <<>>, sent |-> <<>>, done |-> FALSE]
InitAt(fm, c, o) ==
    /\ clock = c
    /\ outStream = NoStream /\ framer = NoFramer
    /\ lockers = NoLockers /\ oldPipe = o
    /\ files = fm /\ workers = <<>> /\ expected = fm
    /\ diagQ = <<>> /\ sentG = EmptyMap /\ burstG = EmptyMap
    /\ pending = EmptyMap /\ batch = EmptyMap /\ first_uri = DocA
    /\ file_to_load = <<>> /\ published = EmptyMap /\ trail = <<>>
    /\ pc = [t \in Threads |-> IF t = Coord THEN "recv" ELSE "idle"]
    /\ lines = [t \in Threads |-> <<>>]
    /\ holders = {}
    /\ child = 0 /\ stdin = 0 /\ rx = 0
    /\ procs = [p \in 1..MaxSpawns |-> "unborn"]
    /\ chan = <<>> /\ work = <<>> /\ emitted = 0 /\ stop = "none"
    /\ outPipe = <<>> /\ errPipe = <<>>
    /\ symbols = EmptyMap /\ project_files = {} /\ ipc = "idle"
    /\ scan = [symbols |-> EmptyMap, project_files |-> {}]
    /\ symbolsLock = "free" /\ filesLock = "free" /\ readers = {}
    /\ passG = [n |-> 0, symbols |-> 0, project_files |-> 0, disk |-> EmptyMap,
                had |-> {}]
    /\ trip = None /\ parsedG = <<>>
    /\ owners = {"main", "coord"}

InitWith(fm) == InitAt(fm, None, None)
InitState == InitWith(EmptyMap)
\* no conversion has been asked for
NoProbe == [line |-> <<>>, offset |-> 0]

\* The Session under load: one document, hover workers, the debounce thread.
SessionNotifs == {Open(DocA, <<"x">>), Change(DocA, <<FullText(<<"x">>)>>)}

Init == InitState /\ probe = NoProbe /\ project_root = None /\ fs = {} /\ disk = EmptyMap

\* the client sends its next notification once the last one has been flushed
Settled == pc[Coord] = "recv" /\ pending = EmptyMap /\ workers = <<>> /\ diagQ = <<>>

Notify == Settled /\ \E n \in SessionNotifs : Dispatch(n, MaxQ)
Worker == \E i \in 1..Len(workers) : WorkerRun(i)
Hover == \E h \in Hovers : HoverStart(h) \/ HoverLock(h) \/ HoverRespond(h)
\* the process falls behind by at most MaxLate answers
InTime == Len(work) <= MaxLate
Collect == \E t \in Threads : RecvLine(t) \/ (InTime /\ Timeout(t)) \/ Disconnected(t)
Cycle ==
    \/ DRecv \/ DFlush \/ DLock \/ DReload
    \/ SpawnFail(Coord) \/ SpawnOk(Coord)
    \/ DUnlock \/ DIndex \/ DPublish \/ DLoop
Process == ProcEmitLine({"out"}, {<<>>}) \/ ProcEmitPrompt \/ ProcExit

Next == Notify \/ Worker \/ Hover \/ Collect \/ Cycle \/ Process

Spec == Init /\ [][Next]_vars

\* The Session with a process that may stay silent for ever: every
\* wait_for_prompt can run into its time limit, the threads are scheduled
\* fairly and the mutex is handed to each waiter sooner or later.
\* It starts after didOpen(DocA) and a first cycle whose launch failed; the
\* client then only edits.
InitLive ==
    /\ InitWith(Put(EmptyMap, DocA, <<"x">>))
    /\ probe = NoProbe /\ project_root = None /\ fs = {} /\ disk = EmptyMap
NotifyLive ==
    InTime /\ Settled /\ Dispatch(Change(DocA, <<FullText(<<"x">>)>>), MaxQ)
\* one hover worker at a time contends with the debounce thread
LiveHovers == {1}
HoverLive ==
    \E h \in LiveHovers : (InTime /\ HoverStart(h)) \/ HoverLock(h) \/ HoverRespond(h)
CollectLive == \E t \in Threads : RecvLine(t) \/ Timeout(t) \/ Disconnected(t)

NextLive == NotifyLive \/ Worker \/ HoverLive \/ CollectLive \/ Cycle \/ Process

Fairness ==
    /\ \A t \in Threads : WF_vars(Timeout(t))
    /\ WF_vars(SpawnFail(Coord) \/ SpawnOk(Coord))
    /\ WF_vars(DReload) /\ WF_vars(DUnlock) /\ SF_vars(DLock)
    /\ \A h \in Hovers : WF_vars(HoverRespond(h)) /\ SF_vars(HoverLock(h))

SpecLive == InitLive /\ [][NextLive]_vars /\ Fairness

\* the debounce thread's wait_for_prompt with a process that answers in time
CollectDebounce == RecvLine(Coord) \/ Disconnected(Coord)

\* The Session with its two reader threads: the process writes to stdout and
\* stderr, each reader forwards its own pipe at its own pace, and the process
\* answers in time.  Lines may have the prompt text in them.
ProcessReaders ==
    \/ ProcWriteErr({"none", "inside"}) \/ ProcWriteOut({"inside"})
    \/ ProcWritePrompt({"whole", "suffix"})
    \/ StdoutReader \/ StderrReader \/ ProcExit

NextReaders == (InTime /\ Notify) \/ Worker \/ CollectDebounce \/ Cycle \/ ProcessReaders

SpecReaders == Init /\ [][NextReaders]_vars

\* The Symbol Indexer with request handlers reading and the disk changing:
\* a project at /proj with up to two sources, one source outside it.
TextFoo == << <<"val", "foo">>, <<"function", "foo">> >>
TextBar == << <<"function", "clause", "bar">> >>

InitIndex ==
    /\ InitState
    /\ probe = NoProbe
    /\ project_root = Some(<<"/", "proj">>) /\ fs = {}
    /\ disk = Put(Put(EmptyMap, SrcC, TextFoo), Notes, TextFoo)

Indexer == IndexScan \/ IndexSwapSymbols \/ IndexSwapFiles \/ IndexReturn
Reader == \E x \in {"symbols", "project_files"} : ReaderAcquire(x) \/ ReaderRelease(x)
Files ==
    \E p \in {SrcA, SrcB} : FsDelete(p) \/ \E c \in {TextFoo, TextBar} : FsWrite(p, c)

NextIndex == Indexer \/ Reader \/ Files
SpecIndex == InitIndex /\ [][NextIndex]_vars

\* The debounce thread under bursts: two documents, one of them not a file,
\* and a project that may or may not have a ROOT marker.
Docs == {DocA, DocU}
DebounceNotifs ==
    {Open(d, <<"x">>) : d \in Docs} \cup {Change(d, <<FullText(<<"x">>)>>) : d \in Docs}
        \cup {Save(d) : d \in Docs}

InitDebounce ==
    /\ InitState
    /\ probe = NoProbe /\ project_root = None /\ disk = EmptyMap
    /\ fs \in {{}, {<<"/", "proj", "ROOT">>}}

NotifyDebounce == \E n \in DebounceNotifs : Dispatch(n, MaxQ)
ProcessDebounce == ProcEmitLine({"diag"}, {DocA.path}) \/ ProcEmitPrompt \/ ProcExit

NextDebounce ==
    NotifyDebounce \/ Worker \/ QuietWhileBusy \/ CollectDebounce \/ Cycle \/ ProcessDebounce

SpecDebounce == InitDebounce /\ [][NextDebounce]_vars

\* The document store under thread-per-notification dispatch: one document,
\* no debounce thread, so every event stays in the channel.
InsertAtStart(t) ==
    [range |-> Some([start |-> [line |-> 0, character |-> 0],
                     end |-> [line |-> 0, character |-> 0]]),
     text |-> t]
DocsNotifs ==
    {Open(DocA, <<"x">>), Change(DocA, <<FullText(<<"y">>)>>),
     Change(DocA, <<InsertAtStart(<<"y">>)>>), Close(DocA)}

InitDocs == InitState /\ probe = NoProbe /\ project_root = None /\ fs = {} /\ disk = EmptyMap
\* the client changes and closes only a document it has opened
NotifyDocs ==
    \E n \in DocsNotifs :
        /\ n.method = "didOpen" \/ n.uri \in DOMAIN expected
        /\ Dispatch(n, MaxNotifs)
NextDocs == NotifyDocs \/ Worker
SpecDocs == InitDocs /\ [][NextDocs]_vars

\* The didChange handler over texts and edit lists: one document is open with
\* any text of at most MaxText characters, the client sends one didChange with
\* one or two content changes, its worker applies them.
SeqsUpTo(S, n) == UNION {[1..k -> S] : k \in 0..n}
Texts == SeqsUpTo({"x", "nl", "e4"}, MaxText)
Positions == [line : 0..1, character : 0..MaxText]
ContentChanges ==
    {[range |-> Some([start |-> s, end |-> e]), text |-> t] :
        s \in Positions, e \in Positions, t \in {<<>>, <<"e4">>}}
    \cup {FullText(<<"x">>)}
EditLists ==
    {<<c>> : c \in ContentChanges} \cup {<<c, d>> : c \in ContentChanges, d \in ContentChanges}

InitEdits ==
    /\ \E t \in Texts : InitWith(Put(EmptyMap, DocA, t))
    /\ probe = NoProbe /\ project_root = None /\ fs = {} /\ disk = EmptyMap
EditsNotifs == {Change(DocA, cs) : cs \in EditLists}
\* the client sends its didChange once
NotifyEdits ==
    /\ workers = <<>> /\ diagQ = <<>>
    /\ \E n \in EditsNotifs : Dispatch(n, 1)
NextEdits == NotifyEdits \/ Worker
SpecEdits == InitEdits /\ [][NextEdits]_vars

\* The offset conversions on their own: a caller holds a line of at most
\* MaxText characters and an offset, converts it and converts the result back.
LineTexts == SeqsUpTo({"x", "e2", "e3", "e4"}, MaxText)
Probes == [line : LineTexts, offset : 0..(4 * MaxText)]
InitOffsets ==
    /\ InitState
    /\ probe \in Probes
    /\ project_root = None /\ fs = {} /\ disk = EmptyMap
\* byte_to_utf16_offset, then utf16_offset_to_byte on what it returned
ByteRoundTrip ==
    /\ ~trip.some
    /\ LET u == byte_to_utf16_offset(probe.line, probe.offset) IN
       trip' = Some([from |-> "byte", there |-> u,
                     back |-> utf16_offset_to_byte(probe.line, u)])
    /\ UNCHANGED <<clock, probe, histVars, envVars, indexVars, pipeVars, docVars, cycleVars, threadVars, replVars>>
\* utf16_offset_to_byte, then byte_to_utf16_offset on what it returned
Utf16RoundTrip ==
    /\ ~trip.some
    /\ LET b == utf16_offset_to_byte(probe.line, probe.offset) IN
       trip' = Some([from |-> "utf16", there |-> b,
                     back |-> byte_to_utf16_offset(probe.line, b)])
    /\ UNCHANGED <<clock, probe, histVars, envVars, indexVars, pipeVars, docVars, cycleVars, threadVars, replVars>>
NextOffsets == ByteRoundTrip \/ Utf16RoundTrip
SpecOffsets == InitOffsets /\ [][NextOffsets]_vars

\* The publication on its own: the debounce thread has spawned the process for
\* its representative, indexed, and stands before publish_diagnostics_batch
\* with any output of at most MaxOut lines.  The representative is a file
\* (main.rs:86); with the Url file:/// it has no parent directory.
DocRoot == [scheme |-> "file", path |-> <<"/">>]
RelB == <<"b.sail">>
DiagLocs ==
    {Loc(Digits(3), Digits(2), Digits(3), Digits(5)),
     Loc(Digits(0), Digits(0), Digits(1), TooLong),
     Loc(TooLong, Digits(1), Digits(2), Digits(0))}
OutputLines ==
    {TextLine("diag", FALSE, path, "none", loc, "m") :
        path \in {DocA.path, RelB}, loc \in DiagLocs}
    \cup {TextLine("cont", FALSE, <<>>, "none", Loc(TooLong, TooLong, TooLong, TooLong), t) :
             t \in {"c1", "c2"}}
    \cup {Line("out", FALSE, <<>>)}
Outputs == SeqsUpTo(OutputLines, MaxOut)

InitDiag ==
    /\ \E u \in {DocA, DocRoot} :
          /\ files = Put(EmptyMap, u, <<"x">>) /\ expected = files
          /\ batch = Put(EmptyMap, u, TRUE) /\ first_uri = u
          /\ file_to_load = u.path
    /\ \E out \in Outputs :
          lines = [t \in Threads |-> IF t = Coord THEN out ELSE <<>>]
    /\ project_root \in {None, Some(<<"/", "proj">>)}
    /\ pc = [t \in Threads |-> IF t = Coord THEN "publish" ELSE "idle"]
    /\ trail = <<"lock", "spawn", "unlock", "index">>
    /\ child = 1 /\ stdin = 1 /\ rx = 1
    /\ procs = [p \in 1..MaxSpawns |-> IF p = 1 THEN "alive" ELSE "unborn"]
    /\ workers = <<>> /\ diagQ = <<>> /\ sentG = EmptyMap /\ burstG = EmptyMap
    /\ pending = EmptyMap /\ published = EmptyMap /\ holders = {}
    /\ chan = <<>> /\ work = <<>> /\ emitted = 0 /\ stop = "none"
    /\ outPipe = <<>> /\ errPipe = <<>>
    /\ symbols = EmptyMap /\ project_files = {} /\ ipc = "idle"
    /\ scan = [symbols |-> EmptyMap, project_files |-> {}]
    /\ symbolsLock = "free" /\ filesLock = "free" /\ readers = {}
    /\ passG = [n |-> 0, symbols |-> 0, project_files |-> 0, disk |-> EmptyMap,
                had |-> {}]
    /\ trip = None /\ parsedG = <<>> /\ probe = NoProbe
    /\ owners = {"main", "coord"} /\ clock = None
    /\ outStream = NoStream /\ framer = NoFramer /\ lockers = NoLockers
    /\ oldPipe = None
    /\ fs = {} /\ disk = EmptyMap
NextDiag == DPublish \/ DLoop
SpecDiag == InitDiag /\ [][NextDiag]_vars

\* ------------------------------------------------------------------ claims
\* a caller is in flight from its write (or the start of spawn) until its
\* wait_for_prompt returns
InFlight(t) == pc[t] \in {"wait", "launch"}
Alive == {p \in 1..MaxSpawns : procs[p] = "alive"}

\* C1: at most one command is in flight against the Session at any time: while
\* one caller is between its write (or the start of its spawn) and the return
\* of its collection, no other caller has written or started a spawn, and the
\* caller in flight is the one thread inside the mutex.
C1_OneInFlight ==
    /\ Cardinality({t \in Threads : InFlight(t)}) <= 1
    /\ \A t \in Threads : InFlight(t) => holders = {t}

\* C1 witness: a hover worker is in flight while the debounce thread and the
\* other hover worker both wait for the mutex.
C1_Witness ==
    \E h \in Hovers :
        /\ pc[h] = "wait"
        /\ pc[Coord] = "lock"
        /\ \E g \in Hovers \ {h} : pc[g] = "lock"

\* C2: no cross-talk: every line a call returns was printed in answer to that
\* call, and the prompt that ended it was printed for that call, also after
\* earlier calls that ended by their timeout.
C2_NoCrossTalk ==
    \A t \in Threads :
        pc[t] = "ret" =>
            /\ \A i \in 1..Len(lines[t]) : ~lines[t][i].stale
            /\ stop # "stalemarker"

\* the step in which the debounce thread drains its pending map
FlushStep == pc[Coord] = "recv" /\ pending # EmptyMap /\ pending' = EmptyMap

C4_ReloadRule ==
    [][ /\ FlushStep => pc'[Coord] = "lock"
        /\ (pc[Coord] = "lock" /\ pc'[Coord] # "lock") =>
              IF ~AnyForce(batch) /\ is_alive
              THEN pc'[Coord] = "send"
              ELSE /\ pc'[Coord] = "launch"
                   /\ file_to_load' \in {ToFilePath(first_uri).val,
                                         <<"/", "proj", "ROOT">>}
      ]_vars

\* C5: every flush of a non-empty pending map goes through exactly these
\* steps, in this order: lock, one re-analysis (':reload' or spawn), unlock,
\* index pass, publication; the lock is not held from the index pass on.
C5_CycleOrder ==
    /\ pc[Coord] = "done" =>
          trail \in {<<"lock", "reload", "unlock", "index", "publish">>,
                     <<"lock", "spawn", "unlock", "index", "publish">>}
    /\ pc[Coord] \in {"index", "publish", "done"} => Coord \notin holders

\* C6: in every flush cycle every document of the batch gets its
\* publishDiagnostics notification, whichever document is the representative.
C6_PublicationCoversBatch ==
    pc[Coord] = "done" => \A d \in DOMAIN batch : d \in DOMAIN published

\* C7: didOpen and didSave enqueue an event with force = true, didChange one
\* with force = false.
C7_ForceByKind ==
    \A i \in 1..Len(diagQ) :
        diagQ[i].force = (diagQ[i].method \in {"didOpen", "didSave"})

\* C8: once every notification worker has run, the document is absent or its
\* text is the result of applying the notifications in arrival order.
C8_ArrivalOrder ==
    workers = <<>> =>
        \/ DocA \notin DOMAIN files
        \/ DocA \in DOMAIN expected /\ files[DocA] = expected[DocA]

C9_Lifecycle ==
    [][ /\ Cardinality({child, stdin, rx} \ {0}) <= 1
        /\ Cardinality(Alive) <= 1
        /\ Alive \subseteq {child}
        /\ Cardinality(Alive') <= 1
        /\ Alive' \subseteq {child'}
        /\ (\E t \in Threads : pc[t] = "launch") => Alive = {}
        /\ (~is_alive /\ is_alive') =>
              \E t \in Threads :
                  /\ pc[t] = "launch" /\ pc'[t] = "wait"
                  /\ child' \notin {0, child}
                  /\ procs[child'] = "unborn"
      ]_vars

\* C9 witness: a second process runs after spawn replaced the first.
C9_Witness ==
    /\ child = 2 /\ procs[2] = "alive" /\ procs[1] = "dead"
    /\ pc[Coord] = "wait"

\* the step in which thread t calls send_command
Sends(t) ==
    \/ t \in Hovers /\ pc[t] = "lock" /\ pc'[t] # "lock"
    \/ t = Coord /\ pc[t] = "send" /\ pc'[t] # "send"

\* C10: soft failure of execute: when the Session has no input stream (never
\* spawned) or the write fails, send_command returns an empty list in that
\* very step, reads nothing from the channel and leaves child, stdin, rx and
\* the processes as they were.
C10_SoftFailure ==
    [][ \A t \in Threads :
          (Sends(t) /\ (stdin = 0 \/ WriteFails)) =>
              /\ pc'[t] = "ret"
              /\ lines'[t] = <<>>
              /\ chan' = chan
              /\ child' = child /\ stdin' = stdin /\ rx' = rx /\ procs' = procs
      ]_vars

\* C10 witness: a write has just failed and came back empty while output of the
\* dead process is still queued in the channel.
C10_Witness ==
    \E t \in Threads :
        /\ pc[t] = "ret" /\ stop = "writefail" /\ lines[t] = <<>>
        /\ chan # <<>>

\* C12: no automatic restart or retry: send_command launches nothing and
\* writes its command once; with the process gone it comes back empty and the
\* Session stays dead; a process is launched only inside the debounce
\* thread's spawn, and every flush that finds the process gone runs that spawn,
\* forced or not.
C12_NoAutoRestart ==
    [][ /\ \A t \in Threads :
              Sends(t) =>
                  /\ procs' = procs /\ child' = child
                  /\ Len(work') <= Len(work) + 1
                  /\ (~is_alive /\ stdin # 0) =>
                        pc'[t] = "ret" /\ lines'[t] = <<>> /\ ~is_alive'
        /\ (\E p \in 1..MaxSpawns : procs[p] = "unborn" /\ procs'[p] = "alive") =>
              pc[Coord] = "launch"
        /\ (FlushStep /\ ~is_alive /\ \E p \in 1..MaxSpawns : procs[p] = "dead") =>
              pc'[Coord] = "lock"
        /\ (pc[Coord] = "lock" /\ pc'[Coord] # "lock" /\ ~is_alive) =>
              pc'[Coord] = "launch"
      ]_vars

\* the step in which thread t's wait_for_prompt stops at a line it takes for
\* the prompt
StopsAtPrompt(t) ==
    /\ pc[t] = "wait" /\ pc'[t] = "ret"
    /\ stop' \in {"marker", "stalemarker", "textmarker"}

\* C13: when a call returns at the prompt of its own answer, every stderr line
\* the process wrote for that answer is in its result: none is still in the
\* stderr pipe and none is queued behind the prompt, whatever the pace of the
\* two reader threads.
C13_BothStreamsCollected ==
    [][ \A t \in Threads :
          (StopsAtPrompt(t) /\ stop' = "marker") =>
              /\ \A i \in 1..Len(errPipe) : errPipe[i].stale
              /\ \A i \in 2..Len(chan) : chan[i].stale
      ]_vars

\* C14: collection stops only at a stdout chunk that ends with the prompt, a
\* line with the prompt text elsewhere or a tagged stderr line never ends it,
\* and output that came in the same chunk as the prompt is not thrown away.
C14_ExactMarker ==
    [][ \A t \in Threads :
          StopsAtPrompt(t) =>
              /\ Head(chan).kind \in {"marker", "out"}
              /\ Head(chan).mark \in {"whole", "suffix"}
              /\ Head(chan).mark = "suffix" => Len(lines'[t]) = Len(lines[t]) + 1
      ]_vars

\* C15: the Symbol Indexer swaps the symbol table and the project file set as
\* one: whenever the symbol table can be read (no write guard on it), the table
\* and the file set come from the same index pass, and when index_project has
\* returned both hold what its scan found.
C15_AtomicSwap ==
    /\ symbolsLock # "write" => passG.symbols = passG.project_files
    /\ "symbols" \in readers => passG.symbols = passG.project_files
    /\ (ipc = "idle" /\ passG.n > 0) =>
          /\ symbols = scan.symbols /\ project_files = scan.project_files
          /\ passG.symbols = passG.n /\ passG.project_files = passG.n

\* C15 witness: the second pass has replaced the symbol table and waits for a
\* handler that is reading the old file set.
C15_Witness ==
    /\ ipc = "symbols_written"
    /\ "project_files" \in readers
    /\ passG.symbols = 2 /\ passG.project_files = 1
    /\ symbols # EmptyMap

\* the text as bytes: each character is Utf8Len(c) bytes, numbered from 1
RECURSIVE Bytes(_)
Bytes(s) ==
    IF s = <<>> THEN <<>>
    ELSE [k \in 1..Utf8Len(Head(s)) |-> <<Head(s), k>>] \o Bytes(Tail(s))
FirstBytes(bs) == SelectSeq(bs, LAMBDA b : b[2] = 1)
Chars(bs) == [i \in 1..Len(FirstBytes(bs)) |-> FirstBytes(bs)[i][1]]
ReplaceBytes(bs, start, end, new) ==
    SubSeq(bs, 1, start) \o new \o SubSeq(bs, end + 1, Len(bs))
\* one change applied to the text t; `reversed` says what a range whose start
\* lies after its end does: "skip" leaves the text alone, "replace" replaces
StepwiseChange(t, ch, reversed) ==
    IF ~ch.range.some THEN ch.text
    ELSE LET start == position_to_byte_offset(t, ch.range.val.start)
             end == position_to_byte_offset(t, ch.range.val.end)
         IN IF start > end /\ reversed = "skip" THEN t
            ELSE Chars(ReplaceBytes(Bytes(t), start, end, Bytes(ch.text)))
RECURSIVE Stepwise(_, _, _)
Stepwise(t, cs, reversed) ==
    IF cs = <<>> THEN t
    ELSE Stepwise(StepwiseChange(t, Head(cs), reversed), Tail(cs), reversed)
DidChangeRan(i) ==
    /\ i \in DOMAIN workers /\ workers' = WithoutIndex(workers, i)
    /\ workers[i].method = "didChange" /\ workers[i].uri \in DOMAIN files

\* C16 (as amended): the text after a didChange is the text before with the
\* changes applied one by one in list order; a change with a range replaces
\* the bytes [start, end) found from its positions in the text of that step,
\* a change whose start lies after its end is skipped, a change without a
\* range replaces the whole text.
C16_StepwiseEdits ==
    [][ \A i \in DOMAIN workers : DidChangeRan(i) =>
            files'[workers[i].uri] =
                Stepwise(files[workers[i].uri], workers[i].changes, "skip") ]_vars
\* C16 as stated: every change with a range replaces [start, end)
C16_EveryRangeReplaces ==
    [][ \A i \in DOMAIN workers : DidChangeRan(i) =>
            files'[workers[i].uri] =
                Stepwise(files[workers[i].uri], workers[i].changes, "replace") ]_vars
\* two insertions of one list have both been applied
C16_Witness ==
    /\ workers = <<>> /\ diagQ # <<>>
    /\ DocA \in DOMAIN files /\ Len(files[DocA]) = MaxText + 2

\* the offsets at which a character of the line starts, and the line's end
RECURSIVE Utf16Units(_)
Utf16Units(s) == IF s = <<>> THEN 0 ELSE Utf16Len(Head(s)) + Utf16Units(Tail(s))
ByteBoundaries(l) == {ByteLen(SubSeq(l, 1, k)) : k \in 0..Len(l)}
Utf16Boundaries(l) == {Utf16Units(SubSeq(l, 1, k)) : k \in 0..Len(l)}

\* C17: at every character boundary of a line (0 and the end included) the
\* two conversions undo each other, from a byte offset and from a UTF-16
\* column, for lines that mix characters of 1, 2, 3 and 4 bytes.
C17_MutualInverses ==
    trip.some =>
        /\ (trip.val.from = "byte" /\ probe.offset \in ByteBoundaries(probe.line))
              => trip.val.back = probe.offset
        /\ (trip.val.from = "utf16" /\ probe.offset \in Utf16Boundaries(probe.line))
              => trip.val.back = probe.offset
\* the boundary after a surrogate pair went from column 2 to byte 4 and back
C17_Witness ==
    /\ probe.line = <<"e4", "e2">> /\ probe.offset = 2
    /\ trip.some /\ trip.val.from = "utf16"
    /\ trip.val.there = 4 /\ trip.val.back = 2

\* the document location of the location line `line`, if it has one
TargetOf(line) == FromFilePath(AbsolutePath(first_uri, line.path))
\* the texts of the tagged lines from j on that do not match the pattern, up
\* to the next location line; with closes = "opened" a location line that
\* opens no diagnostic does not end them
RECURSIVE Continuations(_, _, _)
Continuations(out, j, closes) ==
    IF j > Len(out) THEN <<>>
    ELSE IF out[j].kind = "diag" /\ (closes = "any" \/ TargetOf(out[j]).some) THEN <<>>
    ELSE (IF out[j].kind = "cont" THEN <<out[j].text>> ELSE <<>>)
         \o Continuations(out, j + 1, closes)
ParsedOr(d, default) == IF d.fits THEN d.n ELSE default
LessOne(n, floor) == IF n - 1 < floor THEN floor ELSE n - 1
\* the diagnostic of the location line out[i]; floor is the least line number
AssembledAt(out, i, floor, closes) ==
    [range |-> [start |-> [line |-> LessOne(ParsedOr(out[i].loc.l1, 1), floor),
                           character |-> ParsedOr(out[i].loc.c1, 0)],
                end |-> [line |-> LessOne(ParsedOr(out[i].loc.l2, 1), floor),
                         character |-> ParsedOr(out[i].loc.c2, 0)]],
     message |-> <<out[i].text>> \o Continuations(out, i + 1, closes)]
\* the location lines of `out` for the document u, in order
OpenedFor(out, u) ==
    SelectSeq([i \in 1..Len(out) |-> i],
              LAMBDA i : out[i].kind = "diag" /\ TargetOf(out[i]) = Some(u))
AssembledFor(out, u, floor, closes) ==
    [k \in 1..Len(OpenedFor(out, u)) |-> AssembledAt(out, OpenedFor(out, u)[k], floor, closes)]
Published == pc[Coord] = "done" /\ "publish" \in {trail[k] : k \in DOMAIN trail}

\* C18 (as amended): each tagged line that matches the location pattern and
\* whose path is a document location opens one new diagnostic: start and end
\* line are the parsed numbers less one (0 stays 0, digits that fit no u32
\* count as line 1 and column 0), columns are the parsed numbers; each tagged
\* line that does not match and follows it before the next location line is
\* one more part of its message, so k such lines give k+1 parts.  A location
\* line whose path is no document location opens nothing and the tagged lines
\* after it are dropped.
C18_Assembly ==
    Published =>
        \A u \in DOMAIN published : published[u] = AssembledFor(parsedG, u, 0, "any")
\* C18 as stated: every location line opens a diagnostic, lines are the numbers
\* minus one, a continuation goes to the most recently opened diagnostic
C18_EveryLocationLineOpens ==
    Published =>
        /\ \A i \in DOMAIN parsedG : parsedG[i].kind = "diag" => TargetOf(parsedG[i]).some
        /\ \A u \in DOMAIN published :
              published[u] = AssembledFor(parsedG, u, -1, "opened")
\* the example of the specification with one continuation more: one diagnostic
\* of three parts on line 2, characters 2 to 5
C18_Witness ==
    /\ Published /\ Len(parsedG) = 3
    /\ DocA \in DOMAIN published /\ Len(published[DocA]) = 1
    /\ published[DocA][1].message = <<"m", "c1", "c2">>
    /\ published[DocA][1].range =
          [start |-> [line |-> 2, character |-> 2], end |-> [line |-> 2, character |-> 5]]

\* C19: a line that does not match the pattern creates no diagnostic, a
\* location line whose path is no document location creates none, and every
\* other location line of the batch has its diagnostic published with its own
\* message: its text and the continuation lines up to the next location line,
\* so none of the lines after a dropped location line.
C19_LocalErrors ==
    Published =>
        \A u \in DOMAIN published :
            /\ Len(published[u]) = Len(OpenedFor(parsedG, u))
            /\ \A k \in DOMAIN published[u] :
                  published[u][k].message =
                      <<parsedG[OpenedFor(parsedG, u)[k]].text>>
                      \o Continuations(parsedG, OpenedFor(parsedG, u)[k] + 1, "any")
\* a diagnostic, then a location line that is dropped, then a continuation
\* line: the diagnostic is published with its own text alone
C19_Witness ==
    /\ Published /\ Len(parsedG) = 3
    /\ parsedG[1].kind = "diag" /\ TargetOf(parsedG[1]).some
    /\ parsedG[2].kind = "diag" /\ ~TargetOf(parsedG[2]).some
    /\ parsedG[3].kind = "cont"
    /\ published[TargetOf(parsedG[1]).val] = <<AssembledAt(parsedG, 1, 0, "any")>>
    /\ published[TargetOf(parsedG[1]).val][1].message = <<"m">>

\* the source files of the project on disk d, and the pattern matches in them
\* that capture the identifier s: <<path, line index, pattern index>>
SourcesAt(d) == {p \in DOMAIN d : IsUnder(project_root.val, p) /\ HasSailExt(p)}
PlacesAt(d) ==
    UNION {{<<p, i, k>> : i \in 0..(Len(d[p]) - 1), k \in 1..Len(Patterns)} : p \in SourcesAt(d)}
MatchesAt(d, s) == {m \in PlacesAt(d) : Capture(Patterns[m[3]], d[m[1]][m[2] + 1]) = Some(s)}
EntryOf(m) == [uri |-> FromFilePath(m[1]).val, line |-> m[2], kind |-> Patterns[m[3]].kind]
IdentifiersAt(d) ==
    {Capture(Patterns[m[3]], d[m[1]][m[2] + 1]).val :
        m \in {x \in PlacesAt(d) : Capture(Patterns[x[3]], d[x[1]][x[2] + 1]).some}}
AfterPass == ipc = "idle" /\ passG.n > 0

\* C20: after an index pass the symbol table has exactly one entry for each
\* pattern match in the source files that were on disk at the scan, all the
\* entries of one identifier in one list, and the table and the file set have
\* nothing of a file that was not on disk at the scan (deleted before it).
C20_RebuiltWholesale ==
    AfterPass =>
        /\ project_files = SourcesAt(passG.disk)
        /\ DOMAIN symbols = IdentifiersAt(passG.disk)
        /\ \A s \in DOMAIN symbols :
              /\ Len(symbols[s]) = Cardinality(MatchesAt(passG.disk, s))
              /\ {symbols[s][j] : j \in DOMAIN symbols[s]}
                    = {EntryOf(m) : m \in MatchesAt(passG.disk, s)}
\* second pass: a.sail was in the table, was deleted, and is gone from it, and
\* the val and the function of foo in b.sail are two entries under foo
C20_Witness ==
    /\ AfterPass /\ passG.n = 2
    /\ SrcA \in passG.had /\ SrcA \notin DOMAIN passG.disk
    /\ SrcA \notin project_files
    /\ "foo" \in DOMAIN symbols /\ Len(symbols["foo"]) = 2
    /\ \A j \in DOMAIN symbols["foo"] : symbols["foo"][j].uri.path = SrcB

\* ------------------------------------------ src/handlers.rs: formatting
\* str::lines(): the text is cut after every "nl"; a piece loses its final
\* "nl" and then a "cr" that stood before it; a text that ends with "nl" has
\* no empty last piece, and the empty text has no piece at all.
RECURSIVE SplitInclusive(_)
SplitInclusive(s) ==
    IF s = <<>> THEN <<>>
    ELSE LET first == UpToNewline(s) IN
         IF Len(first) < Len(s)
         THEN <<first \o <<"nl">>>> \o SplitInclusive(SubSeq(s, Len(first) + 2, Len(s)))
         ELSE <<s>>
StripSuffix(l, c) == IF l # <<>> /\ l[Len(l)] = c THEN Some(SubSeq(l, 1, Len(l) - 1)) ELSE None
StripLine(l) ==
    LET a == StripSuffix(l, "nl") IN
    IF ~a.some THEN l
    ELSE LET b == StripSuffix(a.val, "cr") IN IF b.some THEN b.val ELSE a.val
TextLines(content) == [j \in DOMAIN SplitInclusive(content) |-> StripLine(SplitInclusive(content)[j])]

\* last_line_text.chars().map(|c| c.len_utf16() as u32).sum()
RECURSIVE last_char_utf16(_)
last_char_utf16(t) == IF t = <<>> THEN 0 ELSE Utf16Len(Head(t)) + last_char_utf16(Tail(t))

\* What the formatter process did: `outcome` is how far the handler got with it
\* and `stdout` what it printed.
FormatOutcomes == {"no_spawn", "write_failed", "wait_failed", "exit_nonzero", "exit_zero"}
\* the TextEdit built from the document's text once the formatter succeeded
FormatEdit(content, new_text) ==
    LET ls == TextLines(content)
        last_line == IF Len(ls) = 0 THEN 0 ELSE Len(ls) - 1
        last_line_text == IF Len(ls) = 0 THEN <<>> ELSE ls[Len(ls)]
    IN [range |-> [start |-> [line |-> 0, character |-> 0],
                   end |-> [line |-> last_line,
                            character |-> last_char_utf16(last_line_text)]],
        new_text |-> new_text]
\* handle_formatting: Option<Vec<TextEdit>>
handle_formatting(fm, uri, run) ==
    IF uri \notin DOMAIN fm THEN None
    ELSE IF run.outcome # "exit_zero" THEN None
    ELSE Some(<<FormatEdit(fm[uri], run.stdout)>>)

\* The formatting request on its own: the document is closed or holds any text
\* of at most MaxText characters (line feeds, carriage returns, 1- and 4-byte
\* characters), and the formatter ends in any of its outcomes with any stdout.
FormatTexts == SeqsUpTo({"x", "nl", "cr", "e4"}, MaxText)
FormatRuns == [outcome : FormatOutcomes, stdout : Texts]
InitFormat ==
    /\ \E fm \in {EmptyMap} \cup {Put(EmptyMap, DocA, t) : t \in FormatTexts} : InitWith(fm)
    /\ probe \in FormatRuns
    /\ project_root = None /\ fs = {} /\ disk = EmptyMap
Formatting ==
    /\ ~trip.some
    /\ trip' = Some(handle_formatting(files, DocA, probe))
    /\ UNCHANGED <<clock, probe, histVars, envVars, indexVars, pipeVars, docVars, cycleVars, threadVars, replVars>>
NextFormat == Formatting
SpecFormat == InitFormat /\ [][NextFormat]_vars

\* the document after the client applied the edit e to the text t
Edited(t, e) == ApplyChange(t, [range |-> Some(e.range), text |-> e.new_text])
\* C21: when the formatter exits with code zero the reply is exactly one edit
\* and applying it to the document yields exactly the formatter's stdout, for
\* every text (the empty one, and those that end with a line terminator); on
\* any other outcome the reply is absent.
C21_FullReplacement ==
    trip.some =>
        IF DocA \in DOMAIN files /\ probe.outcome = "exit_zero"
        THEN /\ trip.val.some
             /\ Len(trip.val.val) = 1
             /\ Edited(files[DocA], trip.val.val[1]) = probe.stdout
        ELSE trip.val = None

\* ------------------------------- src/handlers.rs: references and rename
MaxScan == 4        \* characters of a scanned text
MaxWord == 2        \* characters of the word looked for

\* is_ident: c.is_alphanumeric() || c == '_' || c == '#' || c == '$'.  "x", "f"
\* and "o" are letters; "sp" is a space and "e4" here a character outside the
\* BMP that is not alphanumeric.
is_ident(c) == c \in {"x", "f", "o"} \/ c = "_" \/ c = "#" \/ c = "$"

\* line.match_indices(&word): the byte offsets of the matches found from left
\* to right, each search resuming after the end of the last match
RECURSIVE MatchFrom(_, _, _)
MatchFrom(line, word, k) ==
    IF k + Len(word) - 1 > Len(line) THEN <<>>
    ELSE IF SubSeq(line, k, k + Len(word) - 1) = word
         THEN <<ByteLen(SubSeq(line, 1, k - 1))>> \o MatchFrom(line, word, k + Len(word))
    ELSE MatchFrom(line, word, k + 1)
match_indices(line, word) == MatchFrom(line, word, 1)

\* a test that looks at the character before the match only
IsWholeWordBefore(line, word, m_idx) ==
    LET upto == UpToByte(line, m_idx)
        before == IF m_idx > 0 THEN Some(upto[Len(upto)]) ELSE None
    IN ~before.some \/ ~is_ident(before.val)

\* before.map_or(true, |c| !is_ident(c)) && after.map_or(true, |c| !is_ident(c))
IsWholeWord(line, word, m_idx) ==
    LET upto == UpToByte(line, m_idx)
        rest == FromByte(line, m_idx + ByteLen(word))
        before == IF m_idx > 0 THEN Some(upto[Len(upto)]) ELSE None
        after == IF rest # <<>> THEN Some(Head(rest)) ELSE None
    IN /\ ~before.some \/ ~is_ident(before.val)
       /\ ~after.some \/ ~is_ident(after.val)

\* the Range pushed for the match at m_idx of line number i
MatchRange(i, line, word, m_idx) ==
    [start |-> [line |-> i, character |-> byte_to_utf16_offset(line, m_idx)],
     end |-> [line |-> i, character |-> byte_to_utf16_offset(line, m_idx + ByteLen(word))]]

\* the inner loop over one line, and the loop over text.lines().enumerate()
ScanLine(i, line, word) ==
    LET kept == SelectSeq(match_indices(line, word), LAMBDA m : IsWholeWord(line, word, m))
    IN [j \in DOMAIN kept |-> MatchRange(i, line, word, kept[j])]
RECURSIVE ScanFrom(_, _, _)
ScanFrom(ls, i, word) ==
    IF i >= Len(ls) THEN <<>>
    ELSE ScanLine(i, ls[i + 1], word) \o ScanFrom(ls, i + 1, word)
ScanText(text, word) == ScanFrom(TextLines(text), 0, word)

\* The scan on its own: one project file holds any text of at most MaxScan
\* characters and the word under the cursor (get_word_at: not empty, made of
\* identifier characters) is any word of at most MaxWord characters; the
\* line of the specification's example is among the texts.
ExampleLine == <<"x", "f", "o", "o", "sp", "f", "o", "o", "sp", "f", "o", "o", "f", "o", "o">>
ExampleWord == <<"f", "o", "o">>
ScanWords == SeqsUpTo({"x", "#"}, MaxWord) \ {<<>>}
ScanTexts == SeqsUpTo({"x", "#", "sp", "e4", "nl"}, MaxScan)
NewName == <<"y">>
ScanProbes == [word : ScanWords, text : ScanTexts]
                 \cup {[word |-> ExampleWord, text |-> ExampleLine]}
InitScan ==
    /\ InitState
    /\ probe \in ScanProbes
    /\ project_root = None /\ fs = {} /\ disk = EmptyMap
\* handle_references: the Locations of one file
References ==
    /\ ~trip.some
    /\ LET rs == ScanText(probe.text, probe.word) IN
       trip' = Some([from |-> "references",
                     found |-> [j \in DOMAIN rs |-> [uri |-> DocA, range |-> rs[j]]]])
    /\ UNCHANGED <<clock, probe, histVars, envVars, indexVars, pipeVars, docVars, cycleVars, threadVars, replVars>>
\* handle_rename: the TextEdits of one file, each with the new name
Rename ==
    /\ ~trip.some
    /\ LET rs == ScanText(probe.text, probe.word) IN
       trip' = Some([from |-> "rename",
                     found |-> [j \in DOMAIN rs |-> [range |-> rs[j], new_text |-> NewName]]])
    /\ UNCHANGED <<clock, probe, histVars, envVars, indexVars, pipeVars, docVars, cycleVars, threadVars, replVars>>
NextScan == References \/ Rename
SpecScan == InitScan /\ [][NextScan]_vars

\* the places (line number, first character) where the word stands in the
\* text with no identifier character right before it or right after it
StandaloneAt(ls, word) ==
    {p \in UNION {{<<i, k>> : k \in 1..Len(ls[i + 1])} : i \in 0..(Len(ls) - 1)} :
      LET i == p[1]
          k == p[2]
      IN
        /\ k + Len(word) - 1 <= Len(ls[i + 1])
        /\ SubSeq(ls[i + 1], k, k + Len(word) - 1) = word
        /\ k = 1 \/ ~is_ident(ls[i + 1][k - 1])
        /\ k + Len(word) - 1 = Len(ls[i + 1]) \/ ~is_ident(ls[i + 1][k + Len(word)])}
\* the range of the place p, in UTF-16 columns
RangeAt(ls, word, p) ==
    [start |-> [line |-> p[1], character |-> Utf16Units(SubSeq(ls[p[1] + 1], 1, p[2] - 1))],
     end |-> [line |-> p[1],
              character |-> Utf16Units(SubSeq(ls[p[1] + 1], 1, p[2] + Len(word) - 1))]]
\* C22: the matches reported by references and by rename are exactly the
\* occurrences of the word that have no identifier character right before or
\* right after them, each reported once: none is missed and none inside a
\* longer identifier is reported.
C22_WordBoundaryScan ==
    trip.some =>
        LET ls == TextLines(probe.text)
            want == {RangeAt(ls, probe.word, p) : p \in StandaloneAt(ls, probe.word)}
            got == trip.val.found
        IN /\ {got[j].range : j \in DOMAIN got} = want
           /\ Len(got) = Cardinality(want)
\* the example: foo in 'xfoo foo foofoo' is reported at offset 5 only
C22_Witness ==
    /\ probe.text = ExampleLine /\ probe.word = ExampleWord
    /\ trip.some /\ trip.val.from = "rename"
    /\ Len(trip.val.found) = 1
    /\ trip.val.found[1].range = [start |-> [line |-> 0, character |-> 5],
                                  end |-> [line |-> 0, character |-> 8]]

\* The server until and after the end of main_loop: the client opens and
\* edits one document and at any moment shuts the server down; the process
\* may fail to launch, answer in part or not at all.
NotifyShutdown == "main" \in owners /\ \E n \in SessionNotifs : Dispatch(n, MaxQ)
CollectShutdown == RecvLine(Coord) \/ (InTime /\ Timeout(Coord)) \/ Disconnected(Coord)
NextShutdown ==
    \/ NotifyShutdown \/ Worker \/ MainLoopEnd
    \/ DMatch \/ DLock \/ DReload \/ SpawnFail(Coord) \/ SpawnOk(Coord)
    \/ DUnlock \/ DIndex \/ DPublish \/ DLoop
    \/ CollectShutdown \/ Process
SpecShutdown == Init /\ [][NextShutdown]_vars

\* the event source is closed: the main loop has ended and the workers are done
SourceClosed == "main" \notin owners /\ workers = <<>>
\* C23: no outcome of a cycle ends the loop of the debounce thread while the
\* event source is open, and once the event source is closed and the channel
\* is empty the thread's next recv_timeout ends the loop.
C23_LoopsUntilClosed ==
    /\ pc[Coord] = "ended" => SourceClosed
    /\ (SourceClosed /\ diagQ = <<>>) => recv_timeout = "Disconnected"

\* The debounce thread against the clock: the client opens and edits one
\* document at any pace, time passes in ticks, and the process may fail to
\* launch, answer with its prompt or exit.  The threads take their steps and
\* time goes on.
InitQuiet ==
    /\ InitAt(EmptyMap, Some([waited |-> 0, quiet |-> 0]), None)
    /\ probe = NoProbe /\ project_root = None /\ fs = {} /\ disk = EmptyMap
NotifyQuiet == \E n \in SessionNotifs : Dispatch(n, MaxQ)
ProcessQuiet == ProcEmitPrompt \/ ProcExit
NextQuiet ==
    \/ NotifyQuiet \/ Worker \/ Tick
    \/ DRecv \/ DFlush \/ DIdle \/ DLock \/ DReload
    \/ SpawnFail(Coord) \/ SpawnOk(Coord)
    \/ DUnlock \/ DIndex \/ DPublish \/ DLoop
    \/ CollectDebounce \/ ProcessQuiet
FairQuiet ==
    /\ WF_vars(Tick) /\ WF_vars(Worker)
    /\ WF_vars(DRecv) /\ WF_vars(DFlush) /\ WF_vars(DIdle)
SpecQuiet == InitQuiet /\ [][NextQuiet]_vars /\ FairQuiet

\* from some moment on the client sends nothing
EventsStop == <>[][~NotifyQuiet]_vars
\* C24: a flush happens only when a whole quiet window has gone by in which
\* no event entered the channel, so none happens while events keep coming
\* less than a window apart; and if events stop coming, a non-empty pending
\* map is flushed in the end.
C24_TrailingEdge ==
    /\ [][FlushStep => clock.val.quiet >= Window]_vars
    /\ EventsStop => ((pending # EmptyMap) ~> (pending = EmptyMap))
\* a flush, a whole window after the last event entered the channel
C24_Witness ==
    /\ pc[Coord] = "lock" /\ batch # EmptyMap
    /\ clock.val.quiet = Window /\ clock.val.waited = Window
    /\ trail = <<>>

\* ------------------------------------- src/repl.rs: the stdout reader, by bytes
MaxBytes == 4       \* bytes the process writes to its stdout

\* A byte is named by a string: "x" is an ordinary ASCII byte, "nl" is b'\n',
\* "sp" a space and "P" stands for the ten bytes of "Sail REPL>"; "e2a" and
\* "e2b" are the two bytes of one 2-byte character and "bad" is a byte that
\* belongs to no UTF-8 sequence.
StdoutBytes == {"x", "nl", "P", "sp", "bad", "e2a", "e2b"}
\* b"Sail REPL> "
PromptBytes == <<"P", "sp">>
EndsWith(s, t) == Len(s) >= Len(t) /\ SubSeq(s, Len(s) - Len(t) + 1, Len(s)) = t

\* String::from_utf8_lossy: the characters of the bytes, with U+FFFD ("fffd")
\* for every byte that is not part of a well-formed character
RECURSIVE from_utf8_lossy(_)
from_utf8_lossy(bs) ==
    IF bs = <<>> THEN <<>>
    ELSE IF Head(bs) = "e2a"
         THEN IF Len(bs) >= 2 /\ bs[2] = "e2b"
              THEN <<"e2">> \o from_utf8_lossy(Tail(Tail(bs)))
              ELSE <<"fffd">> \o from_utf8_lossy(Tail(bs))
    ELSE IF Head(bs) \in {"e2b", "bad"} THEN <<"fffd">> \o from_utf8_lossy(Tail(bs))
    ELSE <<Head(bs)>> \o from_utf8_lossy(Tail(bs))

\* a test that knows the line feed only
EndsChunkAtNewline(b) == b # <<>> /\ b[Len(b)] = "nl"
\* byte[0] == b'\n' || buf.ends_with(b"Sail REPL> "), after buf.push(byte[0])
EndsChunk(b) == (b # <<>> /\ b[Len(b)] = "nl") \/ EndsWith(b, PromptBytes)

\* the process writes one more byte to its stdout
ProcWriteByte(b) ==
    /\ ~outStream.closed
    /\ Len(outStream.wrote) < MaxBytes
    /\ outStream' = [outStream EXCEPT !.wrote = Append(@, b), !.unread = Append(@, b)]
    /\ UNCHANGED <<clock, framer, project_root, fs, owners, lockers>>
    /\ UNCHANGED <<convVars, histVars, indexVars, pipeVars, docVars, cycleVars, threadVars, replVars>>
\* the process exits or closes its stdout
ProcCloseOut ==
    /\ ~outStream.closed
    /\ outStream' = [outStream EXCEPT !.closed = TRUE]
    /\ UNCHANGED <<clock, framer, project_root, fs, owners, lockers>>
    /\ UNCHANGED <<convVars, histVars, indexVars, pipeVars, docVars, cycleVars, threadVars, replVars>>
\* one turn of `while reader.read_exact(&mut byte).is_ok()`
ReaderByte ==
    /\ ~framer.done
    /\ outStream.unread # <<>>
    /\ outStream' = [outStream EXCEPT !.unread = Tail(@)]
    /\ LET b == Append(framer.buf, Head(outStream.unread)) IN
       framer' = IF EndsChunk(b)
                 THEN [framer EXCEPT !.sent = Append(@, from_utf8_lossy(b)), !.buf = <<>>]
                 ELSE [framer EXCEPT !.buf = b]
    /\ UNCHANGED <<clock, project_root, fs, owners, lockers>>
    /\ UNCHANGED <<convVars, histVars, indexVars, pipeVars, docVars, cycleVars, threadVars, replVars>>
\* read_exact fails at the end of the stream: the loop and the thread end
ReaderEnd ==
    /\ ~framer.done
    /\ outStream.unread = <<>> /\ outStream.closed
    /\ framer' = [framer EXCEPT !.done = TRUE]
    /\ UNCHANGED <<clock, outStream, project_root, fs, owners, lockers>>
    /\ UNCHANGED <<convVars, histVars, indexVars, pipeVars, docVars, cycleVars, threadVars, replVars>>

\* The stdout reader on its own, with a process that writes any bytes.
NextFraming == (\E b \in StdoutBytes : ProcWriteByte(b)) \/ ProcCloseOut \/ ReaderByte \/ ReaderEnd
SpecFraming == Init /\ [][NextFraming]_vars

RECURSIVE Concat(_)
Concat(ss) == IF ss = <<>> THEN <<>> ELSE Head(ss) \o Concat(Tail(ss))
\* the bytes the reader has read, and those of them it has sent on
ReadBytes == SubSeq(outStream.wrote, 1, Len(outStream.wrote) - Len(outStream.unread))
SentBytes == SubSeq(ReadBytes, 1, Len(ReadBytes) - Len(framer.buf))
\* the UTF-8 bytes of a text
RECURSIVE Encoded(_)
Encoded(t) ==
    IF t = <<>> THEN <<>>
    ELSE (CASE Head(t) = "e2" -> <<"e2a", "e2b">>
            [] Head(t) = "fffd" -> <<"ef", "bf", "bd">>
            [] OTHER -> <<Head(t)>>) \o Encoded(Tail(t))
IsPrefix(s, t) == Len(s) <= Len(t) /\ SubSeq(t, 1, Len(s)) = s
\* every chunk ends with a line feed or the prompt text and has no line feed
\* before its end; the buffer is what was read after the last chunk and never
\* ends a chunk itself
FramedChunks ==
    /\ \A j \in DOMAIN framer.sent :
          LET c == framer.sent[j] IN
          /\ c # <<>>
          /\ c[Len(c)] = "nl" \/ EndsWith(c, PromptBytes)
          /\ \A k \in 1..(Len(c) - 1) : c[k] # "nl"
    /\ framer.buf = SubSeq(ReadBytes, Len(SentBytes) + 1, Len(ReadBytes))
    /\ framer.buf # <<>> => framer.buf[Len(framer.buf)] # "nl"
    /\ ~EndsWith(framer.buf, PromptBytes)
ProjectLocks == {"files", "symbols", "project_files"}
Acq(l, m) == [op |-> "acq", lock |-> l, mode |-> m]
Rel(l) == [op |-> "rel", lock |-> l, mode |-> "none"]

\* The lock operations of each function, in the order of its code; a guard
\* that is a temporary is released at the end of its statement, the guards
\* of a block in reverse order of their declaration at its end.
\* a handle_hover that keeps its guard of `files` over the Session call
HoverHoldingFiles ==
    <<Acq("files", "read"), Acq("repl", "lock"), Rel("repl"), Rel("files")>>
HoverProg ==
    <<Acq("files", "read"), Rel("files"), Acq("repl", "lock"), Rel("repl")>>
\* handle_definition and handle_completion
DefinitionProg ==
    <<Acq("files", "read"), Rel("files"), Acq("symbols", "read"), Rel("symbols")>>
\* handle_workspace_symbols and handle_document_symbols
SymbolsProg == <<Acq("symbols", "read"), Rel("symbols")>>
FormattingProg == <<Acq("files", "read"), Rel("files")>>
\* handle_references and handle_rename
ReferencesProg ==
    <<Acq("files", "read"), Rel("files"),
      Acq("project_files", "read"), Acq("files", "read"),
      Rel("files"), Rel("project_files")>>
HandlerProgs == {HoverProg, DefinitionProg, SymbolsProg, FormattingProg, ReferencesProg}
\* a notification worker: didOpen, didChange, didClose
WorkerProg == <<Acq("files", "write"), Rel("files")>>
\* index_project
IndexProg ==
    <<Acq("symbols", "write"), Acq("project_files", "write"),
      Rel("project_files"), Rel("symbols")>>
\* a cycle of the debounce thread: the Session block, then index_project
CoordProg == <<Acq("repl", "lock"), Rel("repl")>> \o IndexProg
ProgsOf(t) ==
    IF t = CoordT THEN {CoordProg} ELSE IF t = WorkerT THEN {WorkerProg} ELSE HandlerProgs

\* how the thread t holds the lock l: "none", "read", "write" or "lock"
HeldMode(t, l) ==
    LET me == lockers[t]
        on == {i \in 1..(me.at - 1) : me.prog[i].lock = l}
    IN IF on = {} THEN "none"
       ELSE me.prog[CHOOSE i \in on : \A j \in on : j <= i].mode
\* the thread t stands at the acquisition of the lock l
Wants(t, l) ==
    LET me == lockers[t] IN
    me.at <= Len(me.prog) /\ me.prog[me.at].op = "acq" /\ me.prog[me.at].lock = l
WantedMode(t) == lockers[t].prog[lockers[t].at].mode
\* Mutex::lock and RwLock::write need the lock free, RwLock::read needs it
\* free of a writer
Available(t, l, m) ==
    IF m = "read" THEN \A u \in LockThreads \ {t} : HeldMode(u, l) # "write"
    ELSE \A u \in LockThreads \ {t} : HeldMode(u, l) = "none"

\* a request, a notification or a flush arrives and the thread starts its function
LockStart(t) ==
    /\ lockers[t].prog = <<>>
    /\ \E p \in ProgsOf(t) : lockers' = [lockers EXCEPT ![t] = [prog |-> p, at |-> 1]]
    /\ UNCHANGED <<clock, frameVars, project_root, fs, owners>>
    /\ UNCHANGED <<convVars, histVars, indexVars, pipeVars, docVars, cycleVars, threadVars, replVars>>
\* the thread's next lock operation; its function returns after the last
LockStep(t) ==
    /\ lockers[t].prog # <<>>
    /\ LET me == lockers[t]
           o == me.prog[me.at]
       IN /\ o.op = "acq" => Available(t, o.lock, o.mode)
          /\ lockers' = [lockers EXCEPT ![t] =
                IF me.at = Len(me.prog) THEN [prog |-> <<>>, at |-> 1]
                ELSE [me EXCEPT !.at = @ + 1]]
    /\ UNCHANGED <<clock, frameVars, project_root, fs, owners>>
    /\ UNCHANGED <<convVars, histVars, indexVars, pipeVars, docVars, cycleVars, threadVars, replVars>>

\* The threads of the server by their locking alone: the debounce thread, a
\* notification worker and MaxHandlers request handlers, each running any of
\* its functions again and again.
NextLocks == \E t \in LockThreads : LockStart(t) \/ LockStep(t)
SpecLocks == Init /\ [][NextLocks]_vars

\* an order of the Project State locks
LockRank(l) == CASE l = "symbols" -> 1 [] l = "project_files" -> 2 [] l = "files" -> 3
\* The thread t cannot take the lock it stands at.  A reader also counts as
\* blocked behind a writer that waits for a held lock, as an RwLock that
\* prefers writers would have it.
BlockedBy(t) ==
    IF \E l \in ProjectLocks \cup {"repl"} : Wants(t, l)
    THEN LET l == CHOOSE x \in ProjectLocks \cup {"repl"} : Wants(t, x)
             holding == {u \in LockThreads \ {t} :
                            IF WantedMode(t) = "read" THEN HeldMode(u, l) = "write"
                            ELSE HeldMode(u, l) # "none"}
             queued == {u \in LockThreads \ {t} :
                            /\ WantedMode(t) = "read"
                            /\ Wants(u, l) /\ WantedMode(u) = "write"
                            /\ \E v \in LockThreads : HeldMode(v, l) # "none"}
         IN holding \cup queued
    ELSE {}
\* a set of threads each of which waits for threads of the set only
Deadlocked(D) == D # {} /\ \A t \in D : BlockedBy(t) # {} /\ BlockedBy(t) \subseteq D
\* C26: no thread holds the Session lock while it holds or waits for a lock
\* of the Project State; a thread that takes a Project State lock while it
\* holds another takes them in one fixed order; and no set of threads is
\* deadlocked.
C26_DeadlockFree ==
    /\ \A t \in LockThreads : HeldMode(t, "repl") # "none" =>
          \A l \in ProjectLocks : HeldMode(t, l) = "none" /\ ~Wants(t, l)
    /\ \A t \in LockThreads : \A a, b \in ProjectLocks :
          (HeldMode(t, a) # "none" /\ Wants(t, b)) => LockRank(a) < LockRank(b)
    /\ \A D \in SUBSET LockThreads : ~Deadlocked(D)
\* the index pass waits for the file set, which a references scan holds
\* while it waits for the documents behind a waiting writer
C26_Witness ==
    /\ HeldMode(CoordT, "symbols") = "write" /\ Wants(CoordT, "project_files")
    /\ \E h \in HandlerTs :
          /\ HeldMode(h, "project_files") = "read" /\ Wants(h, "files")
          /\ BlockedBy(h) = {WorkerT}
    /\ Wants(WorkerT, "files")
    /\ \E g \in HandlerTs : HeldMode(g, "files") = "read" /\ lockers[g].prog = HoverProg

\* The Session across restarts: the process writes through its two pipes, is
\* killed and replaced on a forced cycle while output is still in its pipes,
\* and the readers of the old process read on.
ProcessRespawn ==
    \/ ProcWriteErr({"none"}) \/ ProcWritePrompt({"whole"})
    \/ StdoutReader \/ StderrReader \/ ProcExit
NextRespawn ==
    \/ (InTime /\ Notify) \/ Worker \/ CollectDebounce \/ Cycle
    \/ ProcessRespawn \/ OldReader
InitRespawn ==
    /\ InitAt(EmptyMap, None, Some([unread |-> <<>>, failed |-> 0]))
    /\ probe = NoProbe /\ project_root = None /\ fs = {} /\ disk = EmptyMap
SpecRespawn == InitRespawn /\ [][NextRespawn]_vars

\* C27: from a successful spawn on, every line in the channel the Session
\* reads from, and every line a spawn or send_command has collected, was
\* written by the process of that spawn: nothing of an earlier process is
\* left in it and the readers of an earlier process deliver nothing into it.
C27_FreshChannel ==
    rx # 0 =>
        /\ \A i \in DOMAIN chan : chan[i].proc = rx
        /\ \A i \in DOMAIN lines[Coord] : lines[Coord][i].proc = rx
\* the second process has answered a command with a line of its own, and a
\* reader of the first has sent a line in vain
C27_Witness ==
    /\ rx = 2 /\ procs[1] = "dead"
    /\ oldPipe.val.failed = 1
    /\ pc[Coord] = "ret" /\ stop = "marker" /\ trail = <<"lock", "reload">>
    /\ lines[Coord] # <<>>


\* ------------------------------------------------------------------ C28
\* the launch of this cycle's spawn failed: spawn returned Err to the
\* coordinator, which still holds the Session
LaunchFailed == pc[Coord] = "ret" /\ stop = "spawnfail"

\* the Session has no process: its last spawn failed or none was made
SessionDead == child = 0

\* C28: a failed launch is not fatal and leaves a dead Session.  When spawn
\* returns its error the old process has been killed, no process runs and
\* is_alive() is false; the coordinator has empty output.  While the Session
\* stays without a process every execute returns at once with an empty
\* result and none waits for a prompt.  The coordinator's cycle goes on
\* through the index pass and the publication, which parses empty output and
\* clears the diagnostics of every document of the batch, and the loop goes
\* round again.
C28_FailedSpawn ==
    /\ LaunchFailed =>
          /\ \A p \in 1..MaxSpawns : procs[p] # "alive"
          /\ ~is_alive
          /\ SessionDead
          /\ lines[Coord] = <<>>
          /\ trail = <<"lock", "spawn">>
    /\ SessionDead =>
          \A t \in DOMAIN pc :
             /\ pc[t] # "wait"
             /\ pc[t] = "ret" => lines[t] = <<>>
    /\ (SessionDead /\ pc[Coord] \in {"index", "publish"}) =>
          /\ lines[Coord] = <<>>
          /\ trail \in {<<"lock", "spawn", "unlock">>,
                        <<"lock", "spawn", "unlock", "index">>}
    /\ (SessionDead /\ pc[Coord] = "done") =>
          /\ trail = <<"lock", "spawn", "unlock", "index", "publish">>
          /\ parsedG = <<>>
          /\ published = [u \in DOMAIN batch |-> <<>>]
          /\ ENABLED DLoop

\* a hover has run its command on the Session that a failed launch left
\* with the pipe of the killed process, and the coordinator's cycle is done
C28_Witness ==
    /\ SessionDead /\ stdin # 0
    /\ pc[Coord] = "done"
    /\ \E h \in Hovers : pc[h] = "ret" /\ stop = "writefail"


\* ------------------------------------------------------------------ C29
\* the events of a channel merged into a map, oldest first
RECURSIVE MergeAll(_, _)
MergeAll(m, q) ==
    IF q = <<>> THEN m
    ELSE MergeAll(MergeForce(m, Head(q).uri, Head(q).force), Tail(q))

\* the debounce thread is inside a cycle: re-analysis, index pass, publication
Busy == pc[Coord] \notin {"recv", "ended"}

\* C29: no change event is lost or flushed twice.  At every moment the events
\* sent since the last flush began are exactly those waiting in the channel
\* merged over the pending map, each document once with the OR of its flags.
\* A flush happens with the channel empty, takes the whole pending map as its
\* batch and leaves the map empty.  While the thread is inside a cycle the
\* map stays empty and the batch stays as it is, and an event that arrives
\* then waits in the channel behind the events already there.
C29_NoEventLost ==
    [][ /\ MergeAll(pending, diagQ) = sentG
        /\ MergeAll(pending', diagQ') = sentG'
        /\ FlushStep =>
              /\ diagQ = <<>>
              /\ batch' = pending
              /\ Busy'
        /\ Busy =>
              /\ pending = EmptyMap /\ pending' = EmptyMap
              /\ Busy' => batch' = batch
              /\ Len(diagQ') >= Len(diagQ)
              /\ SubSeq(diagQ', 1, Len(diagQ)) = diagQ
      ]_vars

\* an event for a document of the batch in hand has arrived while the thread
\* is about to publish: it waits in the channel for the next batch
C29_Witness ==
    /\ pc[Coord] = "publish"
    /\ batch # EmptyMap /\ pending = EmptyMap
    /\ diagQ # <<>>
    /\ Head(diagQ).uri \in DOMAIN batch
    /\ sentG = MergeAll(EmptyMap, diagQ)

====
